---- MODULE Spec2Model ----
(***************************************************************************)
(* Verification model of the eddy_tcell split-pane editor.                 *)
(*                                                                         *)
(* Text is modelled rune by rune: a string is a sequence of runes, a rune  *)
(* is a one-character TLA+ string.  "W" stands for a wide (two-cell)       *)
(* glyph, "z" for a zero-width combining mark, "\n" is the line feed.      *)
(* Go's 0-based indices are kept in the state; sequences are 1-based, so   *)
(* lines[a.editY] of the source is lines[a.editY + 1] here.                *)
(***************************************************************************)
EXTENDS Integers, Sequences, FiniteSets, TLC

VARIABLES
    fileContent,   \* App.fileContent
    fileModified,  \* App.fileModified
    mode,          \* App.mode: "edit" | "preview"
    activePanel,   \* App.activePanel: "left" | "right"
    editX, editY,  \* App.editX, App.editY (rune units)
    scrollX, scrollY, \* App.scrollX, App.scrollY
    termW, termH,  \* what screen.Size() returns
    crashed,       \* the Go runtime panicked (index or slice out of range)
    lastOp,        \* history: the handler that produced this state
    ecvRan,        \* history: ensureCursorVisible ran in the last step
    currentFile,   \* App.currentFile
    fmtRuns,       \* history: formatter processes run by the last step
    savedContent,  \* history: the content at the last successful open or save;
                   \* tracked by SpecFile only, empty elsewhere
    call,          \* history: the argument and the result of the function a step
                   \* of SpecBuffer or SpecColor applied
    loop,          \* where Run is in its loop, and the locals of the handler it
                   \* is in; used by SpecLoop only
    hl,            \* highlightGoSyntaxLines: inString, inRawString, inMultiComment, inEscape
    hlLine,        \* highlightGoSyntaxLines: the line of the current iteration
    hlRow,         \* highlightGoSyntaxLines: row, the tokens of the current line
    hlRead,        \* highlightGoSyntaxLines: lines ranged over so far
    hlRows,        \* highlightGoSyntaxLines: len(result)
    hlPc,          \* highlightGoSyntaxLines: "loop" (between lines) | "row" (row built)
    hlStart,       \* history: the four flags when the current line was entered
    screen,        \* the cells draw has set on the rows of the right panel
    theme,         \* App.theme: the *Theme held
    themes,        \* the Theme values that exist; themes[1] is defaultTheme
    themeMu,       \* App.themeMu: the writer holding it and the readers holding it
    themeFile,     \* what the file at themePath() is
    thPc,          \* where each goroutine is in loadTheme, reloadTheme or getTheme
    thLocal,       \* the locals of loadTheme / reloadTheme of each goroutine
    thSeen,        \* what the last getTheme returned and the fields read through it
    thPublished    \* history: the references a.theme has held

appVars == <<fileContent, fileModified, mode, activePanel, editX, editY,
             scrollX, scrollY, termW, termH, crashed, lastOp, ecvRan,
             currentFile, fmtRuns, savedContent, call, loop>>

hlVars == <<hl, hlLine, hlRow, hlRead, hlRows, hlPc, hlStart>>

thVars == <<theme, themes, themeMu, themeFile, thPc, thLocal, thSeen, thPublished>>

vars == <<appVars, hlVars, screen, thVars>>

(***************************************************************************)
(* Bounds of the model.                                                    *)
(***************************************************************************)
MaxContent == 3     \* runes (line feeds included) in the edited buffer
MaxEditorW == 2     \* largest editor width in cells the terminal is given
MaxEditorH == 2     \* largest editor height in rows the terminal is given
MaxLineLen == 4     \* runes in a line handed to the highlighter
MaxMdLines == 3     \* lines of a Markdown document made of whole lines
MaxMdLen   == 5     \* runes of a one-line Markdown document
MaxScrollX == 2     \* the preview is scrolled right at most this far
MaxVersions == 2    \* versions of the theme file
MaxReloads == 2     \* loads of the theme that parse the file
MaxLines   == 3     \* lines handed to the highlighter in one call

(***************************************************************************)
(* Program constants.                                                      *)
(***************************************************************************)
leftWidth == 30
textEditorPadding == 2

NL == "\n"

\* the backtick rune (U+0060)
BT == "bt"

\* Runes a key event can carry into the editor.
EditRunes == {"a", "W", NL}

(***************************************************************************)
(* Strings.                                                                *)
(***************************************************************************)
RECURSIVE IndexFrom(_, _, _)
\* strings.Index: the least 1-based index >= i of rune r in s, 0 when absent
IndexFrom(s, r, i) ==
    IF i > Len(s) THEN 0
    ELSE IF s[i] = r THEN i
    ELSE IndexFrom(s, r, i + 1)

RECURSIVE Split(_)
\* strings.Split(s, "\n"): n separators give n + 1 pieces
Split(s) ==
    LET i == IndexFrom(s, NL, 1) IN
    IF i = 0 THEN <<s>>
    ELSE <<SubSeq(s, 1, i - 1)>> \o Split(SubSeq(s, i + 1, Len(s)))

RECURSIVE JoinEach(_)
\* every line followed by the separator
JoinEach(lines) ==
    IF lines = <<>> THEN <<>>
    ELSE lines[1] \o <<NL>> \o JoinEach(Tail(lines))

RECURSIVE Join(_)
\* strings.Join(lines, "\n")
Join(lines) ==
    IF lines = <<>> THEN <<>>
    ELSE IF Len(lines) = 1 THEN lines[1]
    ELSE lines[1] \o <<NL>> \o Join(Tail(lines))

\* App.getLines reading the content as if it ended in a line feed
getLinesExtraLine(content) == Split(content \o <<NL>>)

\* App.getLines
getLines(content) ==
    IF content = <<>> THEN << <<>> >>
    ELSE LET lines == Split(content) IN
         IF Len(lines) = 0 THEN << <<>> >> ELSE lines

\* the control characters a command key event carries as its rune:
\* Ctrl+S is 0x13, Ctrl+F 0x06, Ctrl+G 0x07
CtrlS == "^S"
CtrlF == "^F"
CtrlG == "^G"
\* Tab is 0x09, Ctrl+T 0x14
TabRune == "^I"
CtrlT == "^T"
CtrlRunes == {CtrlS, CtrlF, CtrlG, TabRune, CtrlT}

\* runewidth.RuneWidth: control characters and combining marks take no cell,
\* wide glyphs two, every other rune one
RuneWidth(r) ==
    IF r \in {"z", NL, "\r"} \cup CtrlRunes THEN 0
    ELSE IF r = "W" THEN 2
    ELSE 1

RECURSIVE SumWidth(_, _)
SumWidth(runes, n) ==
    IF n = 0 THEN 0 ELSE SumWidth(runes, n - 1) + RuneWidth(runes[n])

\* runesDisplayWidth(runes, upto)
runesDisplayWidth(runes, upto) ==
    IF upto <= 0 THEN 0
    ELSE SumWidth(runes, IF upto > Len(runes) THEN Len(runes) ELSE upto)


\* no function applied
NoCall == [arg |-> <<>>, ret |-> <<>>]

\* Run is about to draw; no handler is running
NoLoop == [pc |-> "draw", seen |-> <<>>, old |-> <<>>]

\* the paths of the file list: a Go source file and a Markdown file
GoPath == <<"f", ".", "g", "o">>
MdPath == <<"f", ".", "m", "d">>

(***************************************************************************)
(* The application state as one value, so that a handler is the            *)
(* composition of the calls it makes.                                      *)
(***************************************************************************)
App ==
    [fileContent |-> fileContent, fileModified |-> fileModified, mode |-> mode,
     activePanel |-> activePanel, editX |-> editX, editY |-> editY,
     scrollX |-> scrollX, scrollY |-> scrollY, crashed |-> crashed,
     ecvRan |-> FALSE, currentFile |-> currentFile, fmtRuns |-> 0,
     savedContent |-> savedContent, call |-> call, loop |-> loop]

\* a slice or index expression out of range: the runtime panics
Panic(a) == [a EXCEPT !.crashed = TRUE]

\* App.setLines without the modified flag
setLinesKeepFlag(a, lines) == [a EXCEPT !.fileContent = Join(lines)]

\* App.setLines
setLines(a, lines) ==
    [a EXCEPT !.fileContent = Join(lines), !.fileModified = TRUE]

\* App.clampCursor clamping the line only
clampCursorLineOnly(a) ==
    LET lines == getLines(a.fileContent)
        y0 == IF a.editY < 0 THEN 0 ELSE a.editY
        y1 == IF y0 >= Len(lines) THEN Len(lines) - 1 ELSE y0
    IN [a EXCEPT !.editY = y1]

\* App.clampCursor
clampCursor(a) ==
    LET lines == getLines(a.fileContent)
        y0 == IF a.editY < 0 THEN 0 ELSE a.editY
        y1 == IF y0 >= Len(lines) THEN Len(lines) - 1 ELSE y0
        n  == Len(lines[y1 + 1])
        x0 == IF a.editX < 0 THEN 0 ELSE a.editX
        x1 == IF x0 > n THEN n ELSE x0
    IN [a EXCEPT !.editY = y1, !.editX = x1]

\* editorWidth / editorHeight as every function derives them from screen.Size()
EditorWidth(tw) ==
    IF tw - leftWidth - 2 - textEditorPadding < 1 THEN 1
    ELSE tw - leftWidth - 2 - textEditorPadding

EditorHeight(th) == IF th - 5 < 1 THEN 1 ELSE th - 5

RECURSIVE SearchScroll(_, _, _)
\* the loop "for newScroll > 0 { if width(newScroll) <= limit {break}; newScroll-- }"
SearchScroll(runes, newScroll, limit) ==
    IF newScroll > 0 /\ ~(runesDisplayWidth(runes, newScroll) <= limit)
    THEN SearchScroll(runes, newScroll - 1, limit)
    ELSE newScroll

\* the vertical rule of ensureCursorVisible with the lower test dropped
VerticalScrollNoLower(y, sy, h) ==
    IF y < sy THEN y ELSE sy

\* the vertical rule of ensureCursorVisible
VerticalScroll(y, sy, h) ==
    IF y < sy THEN y
    ELSE IF y >= sy + h THEN y - h + 1
    ELSE sy

\* the horizontal rule of ensureCursorVisible on the current line
HorizontalScroll(runes, x, sx, w) ==
    LET cursorDisp == runesDisplayWidth(runes, x)
        scrollDisp == runesDisplayWidth(runes, sx)
    IN IF cursorDisp < scrollDisp THEN x
       ELSE IF cursorDisp >= scrollDisp + w
            THEN SearchScroll(runes, x, cursorDisp - w + 1)
       ELSE sx

\* App.ensureCursorVisible, with the terminal size tw x th
ensureCursorVisible(a, tw, th) ==
    LET sy    == VerticalScroll(a.editY, a.scrollY, EditorHeight(th))
        lines == getLines(a.fileContent)
    IN IF a.editY < 0 \/ a.editY >= Len(lines)
       THEN [a EXCEPT !.scrollY = sy,
                      !.scrollX = IF a.scrollX < 0 THEN 0 ELSE a.scrollX,
                      !.ecvRan = TRUE]
       ELSE LET sx == HorizontalScroll(lines[a.editY + 1], a.editX, a.scrollX,
                                       EditorWidth(tw))
            IN [a EXCEPT !.scrollY = IF sy < 0 THEN 0 ELSE sy,
                         !.scrollX = IF sx < 0 THEN 0 ELSE sx,
                         !.ecvRan = TRUE]

(***************************************************************************)
(* Key events: ev.Key(), ev.Rune() and the Ctrl bit of ev.Modifiers().     *)
(* NoRune is the zero rune of an event that carries none.                  *)
(***************************************************************************)
NoRune == ""

\* the runes '\b' (8) and DEL (127), which handleKey tests for
BS == "BS"
DEL == "DEL"

Ev(k, r, c) == [key |-> k, rune |-> r, ctrl |-> c]

\* runes[:i] and runes[i:]
Prefix(runes, i) == SubSeq(runes, 1, i)
Suffix(runes, i) == SubSeq(runes, i + 1, Len(runes))

\* lines with the write to row y lost
SetLineLost(lines, y, l) == lines

\* lines with row y (0-based) replaced by l
SetLine(lines, y, l) == [lines EXCEPT ![y + 1] = l]

\* lines with the row after row y removed
DropLineBelow(lines, y) == SubSeq(lines, 1, y + 1) \o SubSeq(lines, y + 3, Len(lines))

\* lines with row y (0-based) removed
DropLine(lines, y) == SubSeq(lines, 1, y) \o SubSeq(lines, y + 2, Len(lines))

\* doBackspace (closure of handleKey)
doBackspace(a, tw, th) ==
    IF a.activePanel # "right" \/ a.mode # "edit" THEN a
    ELSE LET lines == getLines(a.fileContent) IN
    IF Len(lines) = 0
    THEN ensureCursorVisible(
             [setLines(a, << <<>> >>) EXCEPT !.editY = 0, !.editX = 0], tw, th)
    ELSE IF a.editY < 0 \/ a.editY >= Len(lines) THEN Panic(a)
    ELSE LET line == lines[a.editY + 1] IN
    IF a.editX > 0
    THEN IF a.editX <= Len(line)
         THEN ensureCursorVisible(
                  [setLines(a, SetLine(lines, a.editY,
                                Prefix(line, a.editX - 1) \o Suffix(line, a.editX)))
                       EXCEPT !.editX = a.editX - 1], tw, th)
         ELSE ensureCursorVisible(a, tw, th)
    ELSE IF a.editY > 0
    THEN LET prev == lines[a.editY] IN
         ensureCursorVisible(
             [setLines(a, DropLine(SetLine(lines, a.editY - 1, prev \o line), a.editY))
                  EXCEPT !.editY = a.editY - 1, !.editX = Len(prev)], tw, th)
    ELSE ensureCursorVisible(a, tw, th)

\* doDelete (closure of handleKey)
doDelete(a, tw, th) ==
    IF a.activePanel # "right" \/ a.mode # "edit" THEN a
    ELSE LET lines == getLines(a.fileContent) IN
    IF Len(lines) = 0 THEN a
    ELSE IF a.editY < 0 \/ a.editY >= Len(lines) THEN Panic(a)
    ELSE LET line == lines[a.editY + 1] IN
    IF a.editX < Len(line)
    THEN IF a.editX < 0 THEN Panic(a)
         ELSE ensureCursorVisible(
                  setLines(a, SetLine(lines, a.editY,
                                Prefix(line, a.editX) \o Suffix(line, a.editX + 1))),
                  tw, th)
    ELSE IF a.editY < Len(lines) - 1
    THEN LET next == lines[a.editY + 2] IN
         ensureCursorVisible(
             setLines(a, DropLine(SetLine(lines, a.editY, line \o next), a.editY + 1)),
             tw, th)
    ELSE ensureCursorVisible(a, tw, th)

\* case tcell.KeyUp of handleKey, right panel
keyUp(a, tw, th) ==
    LET lines == getLines(a.fileContent) IN
    IF a.mode = "edit" /\ a.editY > 0
    THEN IF a.editY - 1 >= Len(lines) THEN Panic(a)
         ELSE LET n == Len(lines[a.editY]) IN
              ensureCursorVisible(
                  [a EXCEPT !.editY = a.editY - 1,
                            !.editX = IF a.editX > n THEN n ELSE a.editX], tw, th)
    ELSE IF a.mode = "preview" /\ a.scrollY > 0
    THEN [a EXCEPT !.scrollY = a.scrollY - 1]
    ELSE a

\* case tcell.KeyDown of handleKey, right panel
keyDown(a, tw, th) ==
    LET lines == getLines(a.fileContent) IN
    IF a.mode = "edit" /\ a.editY < Len(lines) - 1
    THEN IF a.editY + 1 < 0 THEN Panic(a)
         ELSE LET n == Len(lines[a.editY + 2]) IN
              ensureCursorVisible(
                  [a EXCEPT !.editY = a.editY + 1,
                            !.editX = IF a.editX > n THEN n ELSE a.editX], tw, th)
    ELSE IF a.mode = "preview" /\ a.scrollY < Len(lines) - 1
    THEN [a EXCEPT !.scrollY = a.scrollY + 1]
    ELSE a

\* case tcell.KeyLeft of handleKey, right panel
keyLeft(a, tw, th) ==
    IF a.mode = "edit"
    THEN IF a.editX > 0
         THEN ensureCursorVisible([a EXCEPT !.editX = a.editX - 1], tw, th)
         ELSE IF a.editY > 0
         THEN IF a.editY - 1 >= Len(getLines(a.fileContent)) THEN Panic(a)
              ELSE ensureCursorVisible(
                       [a EXCEPT !.editY = a.editY - 1,
                                 !.editX = Len(getLines(a.fileContent)[a.editY])],
                       tw, th)
         ELSE ensureCursorVisible(a, tw, th)
    ELSE IF a.mode = "preview" /\ a.scrollX > 0
    THEN [a EXCEPT !.scrollX = a.scrollX - 1]
    ELSE a

\* case tcell.KeyRight of handleKey, right panel
keyRight(a, tw, th) ==
    LET lines == getLines(a.fileContent) IN
    IF a.mode = "edit"
    THEN IF a.editY < 0 \/ a.editY >= Len(lines) THEN Panic(a)
         ELSE IF a.editX < Len(lines[a.editY + 1])
         THEN ensureCursorVisible([a EXCEPT !.editX = a.editX + 1], tw, th)
         ELSE IF a.editY < Len(lines) - 1
         THEN ensureCursorVisible([a EXCEPT !.editY = a.editY + 1, !.editX = 0], tw, th)
         ELSE ensureCursorVisible(a, tw, th)
    ELSE IF a.mode = "preview"
    THEN [a EXCEPT !.scrollX = a.scrollX + 1]
    ELSE a

\* case tcell.KeyEnter of handleKey, right panel in edit mode
keyEnter(a, tw, th) ==
    LET lines == getLines(a.fileContent) IN
    IF a.editY < 0 \/ a.editY >= Len(lines) THEN Panic(a)
    ELSE LET line == lines[a.editY + 1] IN
    \* runes[a.editX:] panics when a.editX > len(runes)
    IF a.editX < 0 \/ a.editX > Len(line) THEN Panic(a)
    ELSE LET left     == Prefix(line, a.editX)
             right    == Suffix(line, a.editX)
             newLines == SubSeq(lines, 1, a.editY) \o <<left, right>>
                         \o SubSeq(lines, a.editY + 2, Len(lines))
         IN ensureCursorVisible(
                [setLines(a, newLines) EXCEPT !.editY = a.editY + 1, !.editX = 0],
                tw, th)

\* append(append(runes[:x], r), runes[x:]...): the inner append writes r into
\* runes[x] of the shared backing array when x < len(runes), and only then is
\* runes[x:] read
InsertRune(runes, x, r) ==
    IF x < Len(runes)
    THEN Prefix(runes, x) \o <<r>> \o <<r>> \o Suffix(runes, x + 1)
    ELSE runes \o <<r>>

\* App.draw in edit mode: drawEditor calls drawTextEditor, whose first
\* statement is ensureCursorVisible; the cells it sets are not in this state
draw(a, tw, th) == ensureCursorVisible(a, tw, th)

\* helpText of showHelp, cut to its shape: a first line, two empty lines, a
\* heading
HelpText == <<"h", "h", NL, NL, NL, "h">>

\* helpText of main.go's showHelp, cut to its shape as far as a cursor of the
\* edited buffer reaches: a first line, an empty line, a heading and lines of
\* text, each longer than any cursor column
HelpLine == <<"h", "h", "h", "h", "h">>
HelpTextGo ==
    HelpLine \o <<NL, NL>> \o HelpLine \o <<NL>> \o HelpLine \o <<NL>> \o HelpLine
        \o <<NL>> \o HelpLine

\* App.showHelp: the help text is put in fileContent and drawn on the right
\* panel; a key event ends the wait, the content and the panel are put back
\* and drawn
showHelp(a, tw, th) ==
    LET h == draw([a EXCEPT !.fileContent = HelpTextGo, !.activePanel = "right"], tw, th)
    IN draw([h EXCEPT !.fileContent = a.fileContent,
                      !.activePanel = a.activePanel], tw, th)

\* "Ввод символов": the rune branch of handleKey
typeRune(a, r, tw, th) ==
    IF r = "." THEN a     \* toggleHidden: the file list, which is not in this state
    ELSE IF r = "?" THEN showHelp(a, tw, th)
    ELSE IF a.activePanel = "right" /\ a.mode = "edit"
    THEN LET lines == getLines(a.fileContent) IN
         IF a.editY < 0 \/ a.editY >= Len(lines) THEN Panic(a)
         ELSE LET line == lines[a.editY + 1]
                  x0   == IF a.editX < 0 THEN 0 ELSE a.editX
                  x    == IF x0 > Len(line) THEN Len(line) ELSE x0
              IN ensureCursorVisible(
                     [setLines(a, SetLine(lines, a.editY, InsertRune(line, x, r)))
                          EXCEPT !.editX = x + 1], tw, th)
    ELSE a

\* the navigation switch of handleKey
navigate(a, ev, tw, th) ==
    \* left panel: the keys move in the file list, which is not part of this state
    IF a.activePanel # "right" THEN a
    ELSE IF ev.key = "KeyUp" THEN keyUp(a, tw, th)
    ELSE IF ev.key = "KeyDown" THEN keyDown(a, tw, th)
    ELSE IF ev.key = "KeyLeft" THEN keyLeft(a, tw, th)
    ELSE IF ev.key = "KeyRight" THEN keyRight(a, tw, th)
    ELSE IF ev.key = "KeyEnter" /\ a.mode = "edit" THEN keyEnter(a, tw, th)
    ELSE a

\* App.handleKey
handleKey(a, ev, tw, th) ==
    IF ev.key \in {"KeyBackspace", "KeyBackspace2"} \/ ev.rune = BS
    THEN doBackspace(a, tw, th)
    ELSE IF ev.key = "KeyDelete" \/ ev.rune = DEL
    THEN doDelete(a, tw, th)
    ELSE IF ev.ctrl /\ ev.key \in {"KeyLeft", "KeyRight"}
    THEN [a EXCEPT !.activePanel = IF ev.key = "KeyLeft" THEN "left" ELSE "right"]
    ELSE LET b == navigate(a, ev, tw, th) IN
         IF b.crashed \/ ev.rune = NoRune THEN b
         ELSE typeRune(b, ev.rune, tw, th)

(***************************************************************************)
(* Spec: an editing session on the right panel, from a freshly opened file *)
(* (main.go).  Run draws, polls one event and dispatches it; of this state *)
(* the draw writes scrollX and scrollY, through ensureCursorVisible.       *)
(* The editor is one row high and as wide as TermWidths says; SpecView     *)
(* takes ensureCursorVisible through every height.                         *)
(***************************************************************************)
\* every string of at most n runes over alphabet A
Strings(A, n) == UNION {[1..k -> A] : k \in 0..n}

TermWidths  == (leftWidth + 2 + textEditorPadding + 1)..
               (leftWidth + 2 + textEditorPadding + MaxEditorW)
TermHeights == 6..(5 + MaxEditorH)

(***************************************************************************)
(* highlightGoSyntaxLines (main.go).  A token is (text, style); a style is *)
(* named by what tcell.StyleDefault is given.                              *)
(***************************************************************************)
StyleComment == "fg:Green"
StyleString  == "fg:Yellow"
StyleKeyword == "fg:Blue,bold"
StyleType    == "fg:Aqua"
StyleWhite   == "fg:White"
StyleNumber  == "fg:Fuchsia"

\* the keyword table, cut to the words the runes of the model can spell; no
\* entry of the type table can be spelled with them
keywords == {<<"i", "f">>}
types    == {}

Letters == {"i", "f", "e", "E", "_"}
Digits  == {"1"}

\* inString, inRawString, inMultiComment, inEscape as declared before the loop
HlNormal ==
    [inString |-> FALSE, inRawString |-> FALSE, inMultiComment |-> FALSE,
     inEscape |-> FALSE]

\* a token that loses the last rune scanned
TokShort(runes, start, i, style) ==
    [text |-> SubSeq(runes, start, i - 2), style |-> style]

\* hlToken{string(runes[start:i]), style}; start and i are 1-based here
Token(runes, start, i, style) ==
    [text |-> SubSeq(runes, start, i - 1), style |-> style]

RECURSIVE FindCommentEnd(_, _)
\* the loop looking for "*/": the index after it and whether it was found
FindCommentEnd(runes, i) ==
    IF i > Len(runes) THEN [i |-> i, closed |-> FALSE]
    ELSE IF i + 1 <= Len(runes) /\ runes[i] = "*" /\ runes[i + 1] = "/"
    THEN [i |-> i + 2, closed |-> TRUE]
    ELSE FindCommentEnd(runes, i + 1)

RECURSIVE FindRawEnd(_, _)
\* the loop looking for the closing backtick
FindRawEnd(runes, i) ==
    IF i > Len(runes) THEN [i |-> i, closed |-> FALSE]
    ELSE IF runes[i] = BT THEN [i |-> i + 1, closed |-> TRUE]
    ELSE FindRawEnd(runes, i + 1)

RECURSIVE FindStringEndAny(_, _, _)
\* the loop looking for '"' with the test of inEscape dropped
FindStringEndAny(runes, i, esc) ==
    IF i > Len(runes) THEN [i |-> i, closed |-> FALSE, esc |-> esc]
    ELSE IF runes[i] = "\"" THEN [i |-> i + 1, closed |-> TRUE, esc |-> FALSE]
    ELSE FindStringEndAny(runes, i + 1, runes[i] = "\\" /\ ~esc)

RECURSIVE FindStringEnd(_, _, _)
\* the loop looking for an unescaped '"', threading inEscape
FindStringEnd(runes, i, esc) ==
    IF i > Len(runes) THEN [i |-> i, closed |-> FALSE, esc |-> esc]
    ELSE IF runes[i] = "\"" /\ ~esc THEN [i |-> i + 1, closed |-> TRUE, esc |-> esc]
    ELSE FindStringEnd(runes, i + 1, runes[i] = "\\" /\ ~esc)

RECURSIVE IdentEnd(_, _)
IdentEnd(runes, i) ==
    IF i <= Len(runes) /\ runes[i] \in Letters \cup Digits
    THEN IdentEnd(runes, i + 1) ELSE i

RECURSIVE NumberEnd(_, _)
NumberEnd(runes, i) ==
    IF i <= Len(runes) /\ runes[i] \in Digits \cup {".", "e", "E", "+", "-"}
    THEN NumberEnd(runes, i + 1) ELSE i

WordStyle(word) ==
    IF word \in keywords THEN StyleKeyword
    ELSE IF word \in types THEN StyleType
    ELSE StyleWhite

RECURSIVE Scan(_, _, _, _)
\* the loop "for i < len(runes)" over one line; i is 1-based
Scan(runes, i, st, row) ==
    IF i > Len(runes) THEN [row |-> row, st |-> st]
    ELSE IF st.inMultiComment
    THEN LET e == FindCommentEnd(runes, i) IN
         Scan(runes, e.i, [st EXCEPT !.inMultiComment = ~e.closed],
              Append(row, Token(runes, i, e.i, StyleComment)))
    ELSE IF st.inRawString
    THEN LET e == FindRawEnd(runes, i) IN
         Scan(runes, e.i, [st EXCEPT !.inRawString = ~e.closed],
              Append(row, Token(runes, i, e.i, StyleString)))
    ELSE IF st.inString
    THEN LET e == FindStringEnd(runes, i, st.inEscape) IN
         Scan(runes, e.i, [st EXCEPT !.inString = ~e.closed, !.inEscape = e.esc],
              Append(row, Token(runes, i, e.i, StyleString)))
    ELSE IF i + 1 <= Len(runes) /\ runes[i] = "/" /\ runes[i + 1] = "*"
    THEN LET e == FindCommentEnd(runes, i + 2) IN
         Scan(runes, e.i, [st EXCEPT !.inMultiComment = ~e.closed],
              Append(row, Token(runes, i, e.i, StyleComment)))
    ELSE IF i + 1 <= Len(runes) /\ runes[i] = "/" /\ runes[i + 1] = "/"
    THEN [row |-> Append(row, Token(runes, i, Len(runes) + 1, StyleComment)),
          st |-> st]
    ELSE IF runes[i] = BT
    THEN LET e == FindRawEnd(runes, i + 1) IN
         Scan(runes, e.i, [st EXCEPT !.inRawString = ~e.closed],
              Append(row, Token(runes, i, e.i, StyleString)))
    ELSE IF runes[i] = "\""
    THEN LET e == FindStringEnd(runes, i + 1, FALSE) IN
         Scan(runes, e.i, [st EXCEPT !.inString = ~e.closed, !.inEscape = e.esc],
              Append(row, Token(runes, i, e.i, StyleString)))
    ELSE IF runes[i] \in Letters
    THEN LET j == IdentEnd(runes, i) IN
         Scan(runes, j, st,
              Append(row, [text |-> SubSeq(runes, i, j - 1),
                           style |-> WordStyle(SubSeq(runes, i, j - 1))]))
    ELSE IF runes[i] \in Digits
    THEN LET j == NumberEnd(runes, i) IN
         Scan(runes, j, st, Append(row, Token(runes, i, j, StyleNumber)))
    ELSE Scan(runes, i + 1, st, Append(row, Token(runes, i, i + 1, StyleWhite)))

\* the flags a line starts with: declared outside the loop, a fresh line resets them
LineStartReset(st) == HlNormal

\* the flags a line starts with: declared outside the loop, they are what the
\* previous line left
LineStart(st) == st

HlRunes == {"/", "*", BT, "\"", "\\", "i", "f", "1"}

HlLines == Strings(HlRunes, MaxLineLen)

(***************************************************************************)
(* The theme (src/unnamed/part_000).  A *Theme is an index into themes,    *)
(* the Theme values that exist; a Theme value is modelled by two of its    *)
(* fields, UI and Markdown, each holding the version of the theme file it  *)
(* was decoded from (0: the zero value, -1: the built-in theme).           *)
(* The main goroutine loads the theme, starts the watcher and then renders *)
(* (getTheme, then reads of the fields) or reloads on Ctrl+R; the watcher  *)
(* goroutine reloads on file events.  themeMu is the sync.RWMutex.         *)
(***************************************************************************)
Nil == 0

\* &defaultTheme
DefaultRef == 1

defaultTheme == [ui |-> -1, md |-> -1]

Procs == {"main", "watcher"}

NoProc == "none"

\* what the file at themePath() is: a TOML theme of some version, or not there,
\* not accessible, a directory, or not valid TOML
FileStates ==
    {[kind |-> "toml", ver |-> v] : v \in 1..MaxVersions}
        \cup {[kind |-> k, ver |-> 0] : k \in {"absent", "noaccess", "dir", "garbage"}}

\* the reference App.applyTheme stores for the argument t
applyTheme(t) == IF t = Nil THEN DefaultRef ELSE t

\* a failed load that keeps the theme held
argOnErrorKeep(held) == held

\* loadTheme / reloadTheme: the argument of applyTheme after a failed
\* loadThemeFromFile, held being a.theme
argOnError(held) == DefaultRef

\* a decode into the Theme value a.theme points to
decodeTargetHeld(ts, held) == held

\* "var t Theme" of loadThemeFromFile: the index of the new value, ts being
\* the values that exist
decodeTarget(ts, held) == Len(ts) + 1

\* the zero value of Theme
zeroTheme == [ui |-> 0, md |-> 0]

\* the Theme values after the value at t, new when t is past the last one,
\* has had the field f set to v
SetField(ts, t, f, v) ==
    LET all == IF t > Len(ts) THEN Append(ts, zeroTheme) ELSE ts IN
    [all EXCEPT ![t] = [all[t] EXCEPT ![f] = v]]

\* the locals of a goroutine that is not loading: t and err of loadTheme,
\* the version DecodeFile read, and where the goroutine goes on afterwards
NoLoad(ret) == [t |-> Nil, err |-> FALSE, ver |-> 0, ret |-> ret]

\* the theme is not in use
ThIdle ==
    /\ theme = DefaultRef
    /\ themes = <<defaultTheme>>
    /\ themeMu = [w |-> NoProc, r |-> {}]
    /\ themeFile = [kind |-> "absent", ver |-> 0]
    /\ thPc = [p \in Procs |-> "off"]
    /\ thLocal = [p \in Procs |-> NoLoad("off")]
    /\ thSeen = [got |-> Nil, ui |-> 0, md |-> 0]
    /\ thPublished = {DefaultRef}

\* the highlighter is not running
HlIdle ==
    /\ hl = HlNormal
    /\ hlLine = <<>>
    /\ hlRow = <<>>
    /\ hlRead = 0
    /\ hlRows = 0
    /\ hlPc = "idle"
    /\ hlStart = HlNormal

InitHL ==
    /\ fileContent = <<>>
    /\ fileModified = FALSE
    /\ mode = "edit"
    /\ activePanel = "right"
    /\ editX = 0
    /\ editY = 0
    /\ scrollX = 0
    /\ scrollY = 0
    /\ termW \in {leftWidth + 2 + textEditorPadding + 1}
    /\ termH \in {6}
    /\ crashed = FALSE
    /\ lastOp = "open"
    /\ ecvRan = FALSE
    /\ currentFile = GoPath
    /\ fmtRuns = 0
    /\ savedContent = <<>>
    /\ call = NoCall
    /\ loop = NoLoop
    /\ screen = <<>>
    /\ hl = HlNormal
    /\ hlLine = <<>>
    /\ hlRow = <<>>
    /\ hlRead = 0
    /\ hlRows = 0
    /\ hlPc = "loop"
    /\ hlStart = HlNormal
    /\ ThIdle

\* one iteration of "for _, line := range lines", up to the end of its inner loop
HighlightLine ==
    /\ hlPc = "loop"
    /\ hlRead < MaxLines
    /\ \E line \in HlLines :
        \E r \in {Scan(line, 1, LineStart(hl), <<>>)} :
            /\ hlLine' = line
            /\ hlRow' = r.row
            /\ hl' = r.st
    /\ hlStart' = LineStart(hl)
    /\ hlRead' = hlRead + 1
    /\ hlPc' = "row"
    /\ UNCHANGED hlRows
    /\ UNCHANGED <<appVars, screen, thVars>>

\* result = append(result, row), the end of the iteration
AppendRow ==
    /\ hlPc = "row"
    /\ hlRows' = hlRows + 1
    /\ hlLine' = <<>>
    /\ hlRow' = <<>>
    /\ hlPc' = "loop"
    /\ UNCHANGED <<hl, hlRead, hlStart>>
    /\ UNCHANGED <<appVars, screen, thVars>>

NextHL ==
    \/ HighlightLine
    \/ AppendRow

SpecHL == InitHL /\ [][NextHL]_vars

\* App.openFile, the read succeeding with content
openFile(a, content) ==
    clampCursor([a EXCEPT !.fileContent = content, !.fileModified = FALSE,
                          !.editX = 0, !.editY = 0, !.scrollX = 0, !.scrollY = 0])

\* NewApp
NewApp ==
    [fileContent |-> <<>>, fileModified |-> FALSE, mode |-> "edit",
     activePanel |-> "left", editX |-> 0, editY |-> 0, scrollX |-> 0,
     scrollY |-> 0, crashed |-> FALSE, ecvRan |-> FALSE, currentFile |-> <<>>,
     fmtRuns |-> 0, savedContent |-> <<>>, call |-> NoCall,
     loop |-> NoLoop]

\* the state variables take the fields of a
Becomes(a) ==
    /\ fileContent' = a.fileContent
    /\ fileModified' = a.fileModified
    /\ mode' = a.mode
    /\ activePanel' = a.activePanel
    /\ editX' = a.editX
    /\ editY' = a.editY
    /\ scrollX' = a.scrollX
    /\ scrollY' = a.scrollY
    /\ crashed' = a.crashed
    /\ ecvRan' = a.ecvRan
    /\ currentFile' = a.currentFile
    /\ fmtRuns' = a.fmtRuns
    /\ savedContent' = a.savedContent
    /\ call' = a.call
    /\ loop' = a.loop

\* NewApp, then openSelected on a file of the list: openFile and the right panel
Init ==
    \E content \in Strings(EditRunes, MaxContent) :
        LET a == [openFile(NewApp, content) EXCEPT !.activePanel = "right"] IN
        /\ fileContent = a.fileContent
        /\ fileModified = a.fileModified
        /\ mode = a.mode
        /\ activePanel = a.activePanel
        /\ editX = a.editX
        /\ editY = a.editY
        /\ scrollX = a.scrollX
        /\ scrollY = a.scrollY
        /\ crashed = a.crashed
        /\ ecvRan = a.ecvRan
        /\ currentFile = GoPath
        /\ fmtRuns = 0
        /\ savedContent = <<>>
        /\ call = NoCall
        /\ loop = NoLoop
        /\ termW \in TermWidths
        /\ termH = 6
        /\ lastOp = "open"
        /\ screen = <<>>
        /\ HlIdle
        /\ ThIdle

\* one iteration of Run that polls the key event ev: draw, PollEvent, handleKey
KeyEvent(ev, op) ==
    /\ ~crashed
    /\ \E d \in {draw(App, termW, termH)} :
       \E a \in {handleKey(d, ev, termW, termH)} :
           /\ Len(a.fileContent) <= MaxContent
           /\ Becomes(a)
    /\ lastOp' = op
    /\ UNCHANGED <<termW, termH>>
    /\ UNCHANGED <<hlVars, screen, thVars>>

Backspace == KeyEvent(Ev("KeyBackspace2", DEL, FALSE),
                      IF editX = 0 /\ editY > 0 THEN "backspace-merge" ELSE "backspace")
Delete    == KeyEvent(Ev("KeyDelete", NoRune, FALSE),
                      LET lines == getLines(fileContent) IN
                      IF /\ 0 <= editY /\ editY < Len(lines) - 1
                         /\ editX >= Len(lines[editY + 1])
                      THEN "delete-merge" ELSE "delete")
Up        == KeyEvent(Ev("KeyUp", NoRune, FALSE), "move")
Down      == KeyEvent(Ev("KeyDown", NoRune, FALSE), "move")
Left      == KeyEvent(Ev("KeyLeft", NoRune, FALSE), "move")
Right     == KeyEvent(Ev("KeyRight", NoRune, FALSE), "move")
Enter     == KeyEvent(Ev("KeyEnter", NoRune, FALSE), "newline")
\* a printable rune
TypeRune  == \E r \in EditRunes \ {NL} : KeyEvent(Ev("KeyRune", r, FALSE), "rune")
\* Ctrl+J: the terminal sends the line feed, delivered as KeyCtrlJ with rune 10
TypeLF    == KeyEvent(Ev("KeyCtrlJ", NL, TRUE), "newline")
\* the runes '.' and '?', which the rune branch tests for first
TypeShortcut == \E r \in {".", "?"} : KeyEvent(Ev("KeyRune", r, FALSE), "shortcut")

\* one iteration of Run that polls an EventResize, the terminal having
\* another width: draw at the old size, PollEvent, screen.Sync()
Resize ==
    /\ ~crashed
    /\ \E w \in TermWidths \ {termW} : termW' = w
    /\ UNCHANGED termH
    /\ \E a \in {draw(App, termW, termH)} : Becomes(a)
    /\ lastOp' = "resize"
    /\ UNCHANGED <<hlVars, screen, thVars>>

Next ==
    \/ Backspace
    \/ Delete
    \/ Up
    \/ Down
    \/ Left
    \/ Right
    \/ Enter
    \/ TypeRune
    \/ TypeLF
    \/ TypeShortcut
    \/ Resize

Spec == Init /\ [][Next]_vars

(***************************************************************************)
(* SpecView: ensureCursorVisible applied to every buffer, every cursor     *)
(* position on it, every prior scroll offset and every terminal size.      *)
(* (In the preview of the Markdown build the arrow keys move scrollX and   *)
(* scrollY freely, so an edit can meet any prior offset.)                  *)
(***************************************************************************)
ViewRunes == {"a", "W", "z", NL}

InitView ==
    /\ fileContent \in Strings(ViewRunes, MaxContent)
    /\ fileModified = FALSE
    /\ mode = "edit"
    /\ activePanel = "right"
    /\ editY \in 0..(Len(getLines(fileContent)) - 1)
    /\ editX \in 0..Len(getLines(fileContent)[editY + 1])
    /\ scrollX \in 0..MaxContent
    /\ scrollY \in 0..MaxContent
    /\ termW \in TermWidths
    /\ termH \in TermHeights
    /\ crashed = FALSE
    /\ lastOp = "open"
    /\ ecvRan = FALSE
    /\ currentFile = GoPath
    /\ fmtRuns = 0
    /\ savedContent = <<>>
    /\ call = NoCall
    /\ loop = NoLoop
    /\ screen = <<>>
    /\ HlIdle
    /\ ThIdle

EnsureVisible ==
    /\ ~ecvRan
    /\ \E a \in {ensureCursorVisible(App, termW, termH)} : Becomes(a)
    /\ lastOp' = "ensureCursorVisible"
    /\ UNCHANGED <<termW, termH>>
    /\ UNCHANGED <<hlVars, screen, thVars>>

NextView == EnsureVisible

SpecView == InitView /\ [][NextView]_vars

(***************************************************************************)
(* The Markdown preview (src/unnamed/part_000): drawPreview and the        *)
(* preview arms of handleKey.  A style is the theme element it was built   *)
(* from by styleFromSpec, and whether Bold(true) was applied on top; a     *)
(* cell is one call of screen.SetContent: its column relative to startX,   *)
(* its rune, its style, and idx, the index in the rendered line of the     *)
(* rune it shows.                                                          *)
(***************************************************************************)
MdStyle(elem) == [elem |-> elem, bold |-> FALSE]

\* tcell.Style.Bold(true)
Bold(style) == [style EXCEPT !.bold = TRUE]

Cell(col, r, style, idx) == [col |-> col, r |-> r, style |-> style, idx |-> idx]

\* the fence marker, three backticks
Fence == <<BT, BT, BT>>

\* strings.HasPrefix
HasPrefix(s, p) == Len(s) >= Len(p) /\ SubSeq(s, 1, Len(p)) = p

RECURSIVE TrimRight(_, _)
\* strings.TrimRight(s, cutset)
TrimRight(s, cutset) ==
    IF s # <<>> /\ s[Len(s)] \in cutset
    THEN TrimRight(SubSeq(s, 1, Len(s) - 1), cutset) ELSE s

RECURSIVE TrimLeft(_, _)
\* strings.TrimLeft(s, cutset)
TrimLeft(s, cutset) ==
    IF s # <<>> /\ s[1] \in cutset THEN TrimLeft(Tail(s), cutset) ELSE s

\* what unicode.IsSpace and the regexp class \s accept, of the runes used here
Space == {" ", "\t", "\r", NL}

\* strings.TrimSpace
TrimSpace(s) == TrimLeft(TrimRight(s, Space), Space)

RECURSIVE Index(_, _, _)
\* strings.Index(s, sub), searching from the 0-based index i; -1 when absent
Index(s, sub, i) ==
    IF i + Len(sub) > Len(s) THEN -1
    ELSE IF SubSeq(s, i + 1, i + Len(sub)) = sub THEN i
    ELSE Index(s, sub, i + 1)

MdDigits == {"1"}

RECURSIVE SkipWhile(_, _, _)
\* the 1-based index of the first rune at or after i that is not in set
SkipWhile(s, i, set) ==
    IF i <= Len(s) /\ s[i] \in set THEN SkipWhile(s, i + 1, set) ELSE i

\* listRe.MatchString: ^\s*([-+*]|\d+\.)\s+
listRe(s) ==
    LET m == SkipWhile(s, 1, Space)
        d == SkipWhile(s, m, MdDigits)
        e == IF m <= Len(s) /\ s[m] \in {"-", "+", "*"} THEN m + 1
             ELSE IF d > m /\ d <= Len(s) /\ s[d] = "." THEN d + 1
             ELSE 0
    IN e # 0 /\ e <= Len(s) /\ s[e] \in Space

\* "decide line-level style and possibly trim prefixes": the runes rendered
\* and baseStyle
LineStyle(trim, inCodeBlock) ==
    IF inCodeBlock THEN [runes |-> trim, base |-> MdStyle("CodeBlock")]
    ELSE IF HasPrefix(trim, <<"#", " ">>)
    THEN [runes |-> SubSeq(trim, 3, Len(trim)), base |-> MdStyle("H1")]
    ELSE IF HasPrefix(trim, <<"#", "#", " ">>)
    THEN [runes |-> SubSeq(trim, 4, Len(trim)), base |-> MdStyle("H2")]
    ELSE IF HasPrefix(trim, <<"#", "#", "#", " ">>)
    THEN [runes |-> SubSeq(trim, 5, Len(trim)), base |-> MdStyle("H3")]
    ELSE IF HasPrefix(TrimLeft(trim, {" "}), <<">", " ">>)
    THEN LET idx == Index(trim, <<">", " ">>, 0) IN
         [runes |-> IF idx >= 0 THEN TrimSpace(SubSeq(trim, idx + 3, Len(trim)))
                    ELSE trim,
          base |-> MdStyle("Blockquote")]
    ELSE IF listRe(trim) THEN [runes |-> trim, base |-> MdStyle("ListMarker")]
    ELSE [runes |-> trim, base |-> MdStyle("Foreground")]

RECURSIVE FindRune(_, _, _)
\* "for j := from; j < len(runes); j++ { if runes[j] == r ...": the 0-based
\* index of the first r at or after from, -1 when there is none
FindRune(runes, r, from) ==
    IF from >= Len(runes) THEN -1
    ELSE IF runes[from + 1] = r THEN from
    ELSE FindRune(runes, r, from + 1)

RECURSIVE LinkCells(_, _, _, _, _, _, _)
\* the loop over linkText: k and linkCol as in the source, avail is
\* editorWidth - col, first the index in runes of linkText[0]
LinkCells(linkText, k, linkCol, avail, col, first, cells) ==
    IF ~(k < Len(linkText) /\ linkCol < avail) THEN [cells |-> cells, linkCol |-> linkCol]
    ELSE LET lr == linkText[k + 1]
             w  == RuneWidth(lr)
         IN IF linkCol + w > avail THEN [cells |-> cells, linkCol |-> linkCol]
            ELSE LinkCells(linkText, k + 1, linkCol + w, avail, col, first,
                           Append(cells, Cell(col + linkCol, lr, MdStyle("Link"), first + k)))

RECURSIVE Inline(_, _, _, _, _, _, _)
\* "for idx := a.scrollX; idx < len(runes) && col < editorWidth; idx++";
\* c holds what the loop only reads: baseStyle, inCodeBlock, editorWidth
Inline(runes, idx, col, inInlineCode, inEmphasis, cells, c) ==
    IF ~(idx < Len(runes) /\ col < c.editorWidth) THEN cells
    ELSE
    LET r == runes[idx + 1]
        prevIsSpace == idx = 0 \/ runes[idx] \in {" ", "\t"}
        nextIsSpace == idx + 1 >= Len(runes) \/ runes[idx + 2] \in {" ", "\t"}
        closeIdx == FindRune(runes, "]", idx + 1)
        parenClose ==
            IF closeIdx # -1 /\ closeIdx + 1 < Len(runes) /\ runes[closeIdx + 2] = "("
            THEN FindRune(runes, ")", closeIdx + 2) ELSE -1
        curStyle0 == IF inInlineCode THEN MdStyle("InlineCode")
                     ELSE IF inEmphasis THEN Bold(c.base)
                     ELSE c.base
        curStyle == IF r \in {"-", "+", "*"} /\ idx = 0 /\ listRe(runes)
                    THEN MdStyle("ListMarker") ELSE curStyle0
        w == RuneWidth(r)
    IN
    IF r = BT /\ ~c.inCodeBlock
    THEN Inline(runes, idx + 1, col, ~inInlineCode, inEmphasis, cells, c)
    ELSE IF r \in {"*", "_"} /\ ~inInlineCode /\ ~prevIsSpace /\ ~nextIsSpace
    THEN Inline(runes, idx + 1, col, inInlineCode, ~inEmphasis, cells, c)
    ELSE IF r = "[" /\ ~inInlineCode /\ parenClose # -1
    THEN LET l == LinkCells(SubSeq(runes, idx + 2, closeIdx), 0, 0,
                            c.editorWidth - col, col, idx + 1, cells)
         IN Inline(runes, parenClose + 1, col + l.linkCol, inInlineCode,
                   inEmphasis, l.cells, c)
    ELSE IF col + w > c.editorWidth THEN cells
    ELSE Inline(runes, idx + 1, col + w, inInlineCode, inEmphasis,
                Append(cells, Cell(col, r, curStyle, idx)), c)

\* the body of the loop with inInlineCode carried over the runes left of the
\* scroll offset
PreviewLineCarried(trim, inCodeBlock, sx, editorWidth) ==
    LET s == LineStyle(trim, inCodeBlock)
        n == Cardinality({k \in 1..Len(s.runes) : k <= sx /\ s.runes[k] = BT})
    IN Inline(s.runes, sx, 0, ~inCodeBlock /\ n % 2 = 1, FALSE, <<>>,
              [base |-> s.base, inCodeBlock |-> inCodeBlock, editorWidth |-> editorWidth])

\* the body of the loop over lines from "decide line-level style" on: the
\* cells set on the row of one line that is not a fence
PreviewLine(trim, inCodeBlock, sx, editorWidth) ==
    LET s == LineStyle(trim, inCodeBlock) IN
    Inline(s.runes, sx, 0, FALSE, FALSE, <<>>,
           [base |-> s.base, inCodeBlock |-> inCodeBlock, editorWidth |-> editorWidth])

RECURSIVE PreviewRows(_, _, _, _, _, _, _)
\* "for i, line := range lines" of drawPreview; rows[y + 1] is the screen row
\* startY + y of the right panel
PreviewRows(lines, i, inCodeBlock, rows, a, editorWidth, editorHeight) ==
    IF i >= Len(lines) THEN rows
    ELSE IF i < a.scrollY
    THEN PreviewRows(lines, i + 1, inCodeBlock, rows, a, editorWidth, editorHeight)
    ELSE IF i - a.scrollY >= editorHeight THEN rows
    ELSE LET trim == TrimRight(lines[i + 1], {"\r", NL}) IN
         IF HasPrefix(trim, Fence)
         THEN PreviewRows(lines, i + 1, ~inCodeBlock, rows, a, editorWidth, editorHeight)
         ELSE PreviewRows(lines, i + 1, inCodeBlock,
                          [rows EXCEPT ![i - a.scrollY + 1] =
                               PreviewLine(trim, inCodeBlock, a.scrollX, editorWidth)],
                          a, editorWidth, editorHeight)

\* App.drawPreview on the screen draw has cleared
drawPreview(a, tw, th) ==
    PreviewRows(Split(a.fileContent), 0, FALSE,
                [y \in 1..EditorHeight(th) |-> <<>>], a,
                EditorWidth(tw), EditorHeight(th))

\* App.toggleMode
toggleMode(a) == [a EXCEPT !.mode = IF a.mode = "edit" THEN "preview" ELSE "edit"]

\* App.draw of the Markdown build: drawEditor calls drawTextEditor in edit
\* mode, which calls ensureCursorVisible first, and drawPreview otherwise
drawMd(a, tw, th) ==
    IF a.mode = "edit" THEN ensureCursorVisible(a, tw, th) ELSE a

\* App.saveFile of the Markdown build, os.WriteFile succeeding or not
saveFileMd(a, writeOk, tw, th) ==
    IF a.currentFile = <<>> \/ ~writeOk THEN a
    ELSE drawMd([a EXCEPT !.fileModified = FALSE, !.savedContent = a.fileContent],
                tw, th)

\* App.showHelp of the Markdown build
showHelpMd(a, tw, th) ==
    LET h == drawMd([a EXCEPT !.fileContent = HelpText, !.activePanel = "right"], tw, th)
    IN drawMd([h EXCEPT !.fileContent = a.fileContent,
                        !.activePanel = a.activePanel], tw, th)

\* "Общие команды" of the Markdown build: Tab toggles the mode of the right
\* panel, Ctrl+T the terminal (toggleTerminal calls ensureCursorVisible);
\* Ctrl+R reloads the theme, which is not a field of a
commandMd(a, ev, writeOk, tw, th) ==
    IF ev.key = "KeyCtrlS" THEN saveFileMd(a, writeOk, tw, th)
    ELSE IF ev.key = "KeyTab" /\ a.activePanel = "right" THEN toggleMode(a)
    ELSE IF ev.key = "KeyCtrlT" THEN ensureCursorVisible(a, tw, th)
    ELSE a

\* App.handleKey of the Markdown build: its command switch and its showHelp,
\* the other arms are those of handleKey above
handleKeyMd(a, ev, writeOk, tw, th) ==
    IF \/ ev.key \in {"KeyBackspace", "KeyBackspace2", "KeyDelete"}
       \/ ev.rune \in {BS, DEL}
    THEN handleKey(a, ev, tw, th)
    ELSE LET c == commandMd(a, ev, writeOk, tw, th) IN
         IF ev.rune = "?" THEN showHelpMd(c, tw, th)
         ELSE handleKey(c, ev, tw, th)

\* App.openFile of the Markdown build on a path ending in .md or .markdown
openMarkdown(a, content) == [openFile(a, content) EXCEPT !.mode = "preview"]

(***************************************************************************)
(* SpecPreview: a Markdown file opened in the preview and scrolled with    *)
(* the arrow keys.  One step is what Run does from one PollEvent to the    *)
(* next: the handler of the event, then draw.  The buffers are the short   *)
(* documents made of whole lines of MdBlockLines and every single line     *)
(* over MdRunes.                                                           *)
(***************************************************************************)
MdRunes == {"[", "]", "(", ")", BT, "a"}

\* the runes of the line prefixes and of emphasis
MdMarkRunes == {"#", ">", "-", "*", " ", "a"}

MdBlockLines ==
    {Fence, <<"a">>, <<"a", "*", "a", "*", "a">>, <<"#", " ", "a">>,
     <<"1", ".", " ", "a">>}

MdBuffers ==
    {Join(ls) : ls \in Strings(MdBlockLines, MaxMdLines) \ {<<>>}}
        \cup Strings(MdRunes, MaxMdLen)
        \cup Strings(MdMarkRunes, MaxMdLen)

\* what screen.Size() returns: a terminal whose right panel is 2 cells by 1
\* row, and one that shows every document whole
PreviewSizes ==
    {<<leftWidth + 2 + textEditorPadding + 2, 6>>,
     <<leftWidth + 2 + textEditorPadding + MaxMdLen, 5 + MaxMdLines>>}

InitPreview ==
    \E content \in MdBuffers :
        LET a == [openMarkdown(NewApp, content) EXCEPT !.activePanel = "right"] IN
        /\ fileContent = a.fileContent
        /\ fileModified = a.fileModified
        /\ mode = a.mode
        /\ activePanel = a.activePanel
        /\ editX = a.editX
        /\ editY = a.editY
        /\ scrollX = a.scrollX
        /\ scrollY = a.scrollY
        /\ crashed = a.crashed
        /\ ecvRan = a.ecvRan
        /\ currentFile = MdPath
        /\ fmtRuns = 0
        /\ savedContent = <<>>
        /\ call = NoCall
        /\ loop = NoLoop
        /\ \E size \in PreviewSizes : termW = size[1] /\ termH = size[2]
        /\ lastOp = "draw"
        /\ screen = drawPreview(a, termW, termH)
        /\ HlIdle
        /\ ThIdle

\* Run: the key event ev is handled, then draw
PreviewKey(ev) ==
    /\ ~crashed
    /\ mode = "preview"
    /\ \E a \in {handleKeyMd(App, ev, FALSE, termW, termH)} :
       /\ a.scrollX <= MaxScrollX
       /\ Becomes(a)
       /\ screen' = drawPreview(a, termW, termH)
    /\ lastOp' = "draw"
    /\ UNCHANGED <<termW, termH>>
    /\ UNCHANGED <<hlVars, thVars>>

ScrollUp    == PreviewKey(Ev("KeyUp", NoRune, FALSE))
ScrollDown  == PreviewKey(Ev("KeyDown", NoRune, FALSE))
ScrollLeft  == PreviewKey(Ev("KeyLeft", NoRune, FALSE))
ScrollRight == PreviewKey(Ev("KeyRight", NoRune, FALSE))

\* Run: an EventResize (screen.Sync()), then draw at the new size
PreviewResize ==
    /\ ~crashed
    /\ mode = "preview"
    /\ \E size \in PreviewSizes :
        /\ size # <<termW, termH>>
        /\ termW' = size[1]
        /\ termH' = size[2]
        /\ screen' = drawPreview(App, size[1], size[2])
    /\ lastOp' = "draw"
    /\ UNCHANGED <<fileContent, fileModified, mode, activePanel, editX, editY,
                   scrollX, scrollY, crashed, ecvRan, currentFile, fmtRuns,
                   savedContent, call, loop>>
    /\ UNCHANGED <<hlVars, thVars>>

NextPreview ==
    \/ ScrollUp
    \/ ScrollDown
    \/ ScrollLeft
    \/ ScrollRight
    \/ PreviewResize

SpecPreview == InitPreview /\ [][NextPreview]_vars

(***************************************************************************)
(* SpecInline: drawPreview on every one-line Markdown file of at most      *)
(* MaxInlineLen runes over the runes inline rendering tests for, at every  *)
(* horizontal scroll offset the arrow keys can have set.                   *)
(***************************************************************************)
MaxInlineLen == 4   \* runes of the line

InlineAlphabet == {BT, "*", "[", "]", "(", ")", "a", " "}

\* a Markdown file of one line opened in the preview, scrolled right
InitInline ==
    \E content \in Strings(InlineAlphabet, MaxInlineLen) :
        LET a == [openMarkdown(NewApp, content) EXCEPT !.activePanel = "right"] IN
        /\ fileContent = a.fileContent
        /\ fileModified = a.fileModified
        /\ mode = a.mode
        /\ activePanel = a.activePanel
        /\ editX = a.editX
        /\ editY = a.editY
        /\ scrollX \in 0..MaxScrollX
        /\ scrollY = a.scrollY
        /\ crashed = a.crashed
        /\ ecvRan = a.ecvRan
        /\ currentFile = MdPath
        /\ fmtRuns = 0
        /\ savedContent = <<>>
        /\ call = NoCall
        /\ loop = NoLoop
        /\ \E size \in PreviewSizes : termW = size[1] /\ termH = size[2]
        /\ lastOp = "open"
        /\ screen = <<>>
        /\ HlIdle
        /\ ThIdle

\* Run: a.draw(), which calls drawPreview
DrawInline ==
    /\ lastOp = "open"
    /\ screen' = drawPreview(App, termW, termH)
    /\ lastOp' = "draw"
    /\ UNCHANGED <<fileContent, fileModified, mode, activePanel, editX, editY,
                   scrollX, scrollY, termW, termH, crashed, ecvRan, currentFile,
                   fmtRuns, savedContent, call, loop>>
    /\ UNCHANGED <<hlVars, thVars>>

NextInline == DrawInline

SpecInline == InitInline /\ [][NextInline]_vars

(***************************************************************************)
(* SpecMode: the keys of the Markdown build (part_000) on a Markdown file, *)
(* which opens in the preview; Tab takes the right panel to edit mode and  *)
(* back.  One step is one iteration of Run: draw, PollEvent, handleKey.    *)
(***************************************************************************)
MaxModeLen == 2     \* runes (line feeds included) in the buffer

InitMode ==
    \E content \in Strings({"a", NL}, MaxModeLen) :
        LET a == [openMarkdown(NewApp, content) EXCEPT !.activePanel = "right"] IN
        /\ fileContent = a.fileContent
        /\ fileModified = a.fileModified
        /\ mode = a.mode
        /\ activePanel = a.activePanel
        /\ editX = a.editX
        /\ editY = a.editY
        /\ scrollX = a.scrollX
        /\ scrollY = a.scrollY
        /\ crashed = a.crashed
        /\ ecvRan = a.ecvRan
        /\ currentFile = MdPath
        /\ fmtRuns = 0
        /\ savedContent = content
        /\ call = NoCall
        /\ loop = NoLoop
        /\ termW \in TermWidths
        /\ termH = 6
        /\ lastOp = "open"
        /\ screen = <<>>
        /\ HlIdle
        /\ ThIdle

\* one iteration of Run that polls the key event ev, none of which saves
ModeKey(ev) ==
    /\ ~crashed
    /\ \E d \in {drawMd(App, termW, termH)} :
       \E a \in {handleKeyMd(d, ev, FALSE, termW, termH)} :
           /\ Len(a.fileContent) <= MaxModeLen
           /\ a.scrollX <= MaxScrollX
           /\ Becomes(a)
    /\ lastOp' = "key"
    /\ UNCHANGED <<termW, termH>>
    /\ UNCHANGED <<hlVars, screen, thVars>>

\* the arrow keys and Enter on the right panel
ModeArrow ==
    /\ activePanel = "right"
    /\ \E k \in {"KeyUp", "KeyDown", "KeyLeft", "KeyRight", "KeyEnter"} :
        ModeKey(Ev(k, NoRune, FALSE))

\* Backspace and Delete on the right panel
ModeErase ==
    /\ activePanel = "right"
    /\ \E ev \in {Ev("KeyBackspace2", DEL, FALSE), Ev("KeyDelete", NoRune, FALSE)} :
        ModeKey(ev)

\* Tab, delivered as KeyTab with or without the rune 0x09
ModeTab == \E r \in {NoRune, TabRune} : ModeKey(Ev("KeyTab", r, FALSE))

\* a printable rune
ModeRune == \E r \in {"a", ".", "?"} : ModeKey(Ev("KeyRune", r, FALSE))

\* Ctrl+Left, Ctrl+Right
ModeFocus == \E k \in {"KeyLeft", "KeyRight"} : ModeKey(Ev(k, NoRune, TRUE))

NextMode ==
    \/ ModeArrow
    \/ ModeErase
    \/ ModeTab
    \/ ModeRune
    \/ ModeFocus

SpecMode == InitMode /\ [][NextMode]_vars

(***************************************************************************)
(* SpecTheme: the theme from NewApp on, with the theme file changing under *)
(* the application.                                                        *)
(***************************************************************************)
\* NewApp up to "theme: &defaultTheme": main is about to call loadTheme
InitTheme ==
    /\ fileContent = <<>>
    /\ fileModified = FALSE
    /\ mode = "edit"
    /\ activePanel = "left"
    /\ editX = 0
    /\ editY = 0
    /\ scrollX = 0
    /\ scrollY = 0
    /\ termW \in {leftWidth + 2 + textEditorPadding + 1}
    /\ termH \in {6}
    /\ crashed = FALSE
    /\ lastOp = "open"
    /\ ecvRan = FALSE
    /\ currentFile = GoPath
    /\ fmtRuns = 0
    /\ savedContent = <<>>
    /\ call = NoCall
    /\ loop = NoLoop
    /\ screen = <<>>
    /\ HlIdle
    /\ theme = DefaultRef
    /\ themes = <<defaultTheme>>
    /\ themeMu = [w |-> NoProc, r |-> {}]
    /\ themeFile \in FileStates
    /\ thPc = [p \in Procs |-> IF p = "main" THEN "stat" ELSE "off"]
    /\ thLocal = [p \in Procs |-> NoLoad(IF p = "main" THEN "watch" ELSE "off")]
    /\ thSeen = [got |-> Nil, ui |-> 0, md |-> 0]
    /\ thPublished = {DefaultRef}

ThFrame == UNCHANGED <<appVars, hlVars, screen>>

\* where a goroutine is between two calls
Resting(p) == IF p = "main" THEN "idle" ELSE "wait"

\* the theme file is written, created, removed or replaced by another program
FileChange ==
    /\ \E f \in FileStates \ {themeFile} : themeFile' = f
    /\ UNCHANGED <<theme, themes, themeMu, thPc, thLocal, thSeen, thPublished>>
    /\ ThFrame

\* NewApp: watchThemeFile, after loadTheme has returned; the watcher
\* goroutine starts unless the directory cannot be watched
WatchThemeFile ==
    /\ thPc["main"] = "watch"
    /\ \E started \in BOOLEAN :
        thPc' = [thPc EXCEPT !["main"] = "idle",
                             !["watcher"] = IF started THEN "wait" ELSE "off"]
    /\ UNCHANGED <<theme, themes, themeMu, themeFile, thLocal, thSeen, thPublished>>
    /\ ThFrame

\* reloadTheme is called: by handleKey on Ctrl+R, by the watcher on an event
\* for the theme file
ReloadTheme(p) ==
    /\ thPc[p] = Resting(p)
    /\ Len(themes) <= MaxReloads
    /\ thPc' = [thPc EXCEPT ![p] = "stat"]
    /\ thLocal' = [thLocal EXCEPT ![p] = NoLoad(Resting(p))]
    /\ UNCHANGED <<theme, themes, themeMu, themeFile, thSeen, thPublished>>
    /\ ThFrame

\* loadThemeFromFile: os.Stat and info.IsDir
StatTheme(p) ==
    /\ thPc[p] = "stat"
    /\ IF themeFile.kind \in {"absent", "noaccess", "dir"}
       THEN /\ thLocal' = [thLocal EXCEPT ![p].err = TRUE]
            /\ thPc' = [thPc EXCEPT ![p] = "lock"]
       ELSE /\ thPc' = [thPc EXCEPT ![p] = "decode"]
            /\ UNCHANGED thLocal
    /\ UNCHANGED <<theme, themes, themeMu, themeFile, thSeen, thPublished>>
    /\ ThFrame

\* toml.DecodeFile(path, &t): the file is read and the first field is set
DecodeTheme(p) ==
    /\ thPc[p] = "decode"
    /\ IF themeFile.kind # "toml"
       THEN /\ thLocal' = [thLocal EXCEPT ![p].err = TRUE]
            /\ thPc' = [thPc EXCEPT ![p] = "lock"]
            /\ UNCHANGED themes
       ELSE \E t \in {decodeTarget(themes, theme)} :
            /\ themes' = SetField(themes, t, "ui", themeFile.ver)
            /\ thLocal' = [thLocal EXCEPT ![p].t = t, ![p].ver = themeFile.ver]
            /\ thPc' = [thPc EXCEPT ![p] = "decode2"]
    /\ UNCHANGED <<theme, themeMu, themeFile, thSeen, thPublished>>
    /\ ThFrame

\* toml.DecodeFile: the second field is set, loadThemeFromFile returns &t
DecodeRest(p) ==
    /\ thPc[p] = "decode2"
    /\ themes' = SetField(themes, thLocal[p].t, "md", thLocal[p].ver)
    /\ thPc' = [thPc EXCEPT ![p] = "lock"]
    /\ UNCHANGED <<theme, themeMu, themeFile, thLocal, thSeen, thPublished>>
    /\ ThFrame

\* applyTheme: a.themeMu.Lock()
LockTheme(p) ==
    /\ thPc[p] = "lock"
    /\ themeMu.w = NoProc
    /\ themeMu.r = {}
    /\ themeMu' = [themeMu EXCEPT !.w = p]
    /\ thPc' = [thPc EXCEPT ![p] = "store"]
    /\ UNCHANGED <<theme, themes, themeFile, thLocal, thSeen, thPublished>>
    /\ ThFrame

\* applyTheme: a.theme = t, or &defaultTheme for nil
StoreTheme(p) ==
    /\ thPc[p] = "store"
    /\ \E t \in {applyTheme(IF thLocal[p].err THEN argOnError(theme)
                            ELSE thLocal[p].t)} :
        /\ theme' = t
        /\ thPublished' = thPublished \cup {t}
    /\ thPc' = [thPc EXCEPT ![p] = "unlock"]
    /\ UNCHANGED <<themes, themeMu, themeFile, thLocal, thSeen>>
    /\ ThFrame

\* applyTheme: the deferred a.themeMu.Unlock(); loadTheme or reloadTheme returns
UnlockTheme(p) ==
    /\ thPc[p] = "unlock"
    /\ themeMu' = [themeMu EXCEPT !.w = NoProc]
    /\ thPc' = [thPc EXCEPT ![p] = thLocal[p].ret]
    /\ UNCHANGED <<theme, themes, themeFile, thLocal, thSeen, thPublished>>
    /\ ThFrame

\* getTheme: a.themeMu.RLock()
RLockTheme ==
    /\ thPc["main"] = "idle"
    /\ themeMu.w = NoProc
    /\ themeMu' = [themeMu EXCEPT !.r = themeMu.r \cup {"main"}]
    /\ thPc' = [thPc EXCEPT !["main"] = "read"]
    /\ thSeen' = [got |-> Nil, ui |-> 0, md |-> 0]
    /\ UNCHANGED <<theme, themes, themeFile, thLocal, thPublished>>
    /\ ThFrame

\* getTheme: the value of "return a.theme"
ReadTheme ==
    /\ thPc["main"] = "read"
    /\ thSeen' = [thSeen EXCEPT !.got = theme]
    /\ thPc' = [thPc EXCEPT !["main"] = "runlock"]
    /\ UNCHANGED <<theme, themes, themeMu, themeFile, thLocal, thPublished>>
    /\ ThFrame

\* getTheme: the deferred a.themeMu.RUnlock(); the caller has its theme
RUnlockTheme ==
    /\ thPc["main"] = "runlock"
    /\ themeMu' = [themeMu EXCEPT !.r = themeMu.r \ {"main"}]
    /\ thPc' = [thPc EXCEPT !["main"] = "useUI"]
    /\ UNCHANGED <<theme, themes, themeFile, thLocal, thSeen, thPublished>>
    /\ ThFrame

\* a draw function reads theme.UI
UseUI ==
    /\ thPc["main"] = "useUI"
    /\ thSeen' = [thSeen EXCEPT !.ui = themes[thSeen.got].ui]
    /\ thPc' = [thPc EXCEPT !["main"] = "useMd"]
    /\ UNCHANGED <<theme, themes, themeMu, themeFile, thLocal, thPublished>>
    /\ ThFrame

\* a draw function reads theme.Markdown
UseMd ==
    /\ thPc["main"] = "useMd"
    /\ thSeen' = [thSeen EXCEPT !.md = themes[thSeen.got].md]
    /\ thPc' = [thPc EXCEPT !["main"] = "idle"]
    /\ UNCHANGED <<theme, themes, themeMu, themeFile, thLocal, thPublished>>
    /\ ThFrame

NextTheme ==
    \/ FileChange
    \/ WatchThemeFile
    \/ \E p \in Procs :
        \/ ReloadTheme(p)
        \/ StatTheme(p)
        \/ DecodeTheme(p)
        \/ DecodeRest(p)
        \/ LockTheme(p)
        \/ StoreTheme(p)
        \/ UnlockTheme(p)
    \/ RLockTheme
    \/ ReadTheme
    \/ RUnlockTheme
    \/ UseUI
    \/ UseMd

SpecTheme == InitTheme /\ [][NextTheme]_vars

(***************************************************************************)
(* SpecFile: opening, saving and formatting files (main.go).  The file     *)
(* system and the formatter processes are the environment: each call of    *)
(* os.ReadFile, os.WriteFile and cmd.Output has one of its outcomes.       *)
(***************************************************************************)
MaxFileLen == 2     \* runes in a file read and in the buffer it is edited in
MaxFmtLen == 1      \* runes in what a formatter writes to its output

\* the runes of the files opened and typed
FileRunes == {"a", NL}

\* fmt.Sprintf("Ошибка чтения файла: %v", err): one line of text
ReadError == <<"!">>

\* strings.HasSuffix
HasSuffix(s, suffix) ==
    /\ Len(s) >= Len(suffix)
    /\ SubSeq(s, Len(s) - Len(suffix) + 1, Len(s)) = suffix

\* App.isGoFile
isGoFile(a) == HasSuffix(a.currentFile, <<".", "g", "o">>)

\* App.openFile, os.ReadFile returning read = [ok, data]
openFileRead(a, path, read) ==
    IF ~read.ok THEN [a EXCEPT !.fileContent = ReadError]
    ELSE [openFile([a EXCEPT !.currentFile = path], read.data)
              EXCEPT !.savedContent = read.data]

\* App.openSelected, the cursor of the file list on the entry sel
openSelected(a, sel, read) ==
    IF sel.isDir THEN [a EXCEPT !.activePanel = "left"]
    ELSE [openFileRead(a, sel.path, read) EXCEPT !.activePanel = "right"]

\* App.saveFile, os.WriteFile succeeding or not; after a successful write it
\* calls a.draw()
saveFile(a, writeOk, tw, th) ==
    IF a.currentFile = <<>> THEN a
    ELSE IF ~writeOk THEN a
    ELSE draw([a EXCEPT !.fileModified = FALSE, !.savedContent = a.fileContent],
              tw, th)

\* App.formatWithGofmt, cmd.Output returning run = [ok, output]
formatWithGofmt(a, run) ==
    IF a.currentFile = <<>> \/ ~isGoFile(a) THEN a
    ELSE LET b == [a EXCEPT !.fmtRuns = a.fmtRuns + 1] IN
         IF ~run.ok THEN b
         ELSE [b EXCEPT !.fileContent = run.output, !.fileModified = TRUE]

\* App.formatWithGoimports, cmd.Output returning run = [ok, output]
formatWithGoimports(a, run) ==
    IF a.currentFile = <<>> \/ ~isGoFile(a) THEN a
    ELSE LET b == [a EXCEPT !.fmtRuns = a.fmtRuns + 1] IN
         IF ~run.ok THEN b
         ELSE [b EXCEPT !.fileContent = run.output, !.fileModified = TRUE]

\* "Общие команды": the command switch of handleKey
command(a, ev, env, tw, th) ==
    IF ev.key = "KeyCtrlS" THEN saveFile(a, env.writeOk, tw, th)
    ELSE IF ev.key = "KeyCtrlF" THEN formatWithGofmt(a, env.run)
    ELSE IF ev.key = "KeyCtrlG" THEN formatWithGoimports(a, env.run)
    ELSE a

\* App.handleKey with the command switch and the file list: Right and Enter
\* on the left panel open the selected entry
handleKeyFile(a, ev, env, tw, th) ==
    IF \/ ev.key \in {"KeyBackspace", "KeyBackspace2", "KeyDelete"}
       \/ ev.rune \in {BS, DEL}
    THEN handleKey(a, ev, tw, th)
    ELSE LET c == command(a, ev, env, tw, th) IN
         IF c.activePanel = "left" /\ ~ev.ctrl /\ ev.key \in {"KeyRight", "KeyEnter"}
         THEN LET b == openSelected(c, env.sel, env.read) IN
              IF ev.rune = NoRune THEN b ELSE typeRune(b, ev.rune, tw, th)
         ELSE handleKey(c, ev, tw, th)

\* what the environment can answer
FileContents == Strings(FileRunes, MaxFileLen)
FmtOutputs   == Strings(FileRunes, MaxFmtLen)
Entries      == {[isDir |-> TRUE, path |-> <<>>],
                 [isDir |-> FALSE, path |-> GoPath],
                 [isDir |-> FALSE, path |-> MdPath]}
Reads        == {[ok |-> FALSE, data |-> <<>>]} \cup
                {[ok |-> TRUE, data |-> d] : d \in FileContents}
Runs         == {[ok |-> FALSE, output |-> <<>>]} \cup
                {[ok |-> TRUE, output |-> o] : o \in FmtOutputs}
NoEnv        == [sel |-> [isDir |-> TRUE, path |-> <<>>],
                 read |-> [ok |-> FALSE, data |-> <<>>],
                 writeOk |-> FALSE,
                 run |-> [ok |-> FALSE, output |-> <<>>]]

\* NewApp, then openSelected on a file of the list that is read
InitFile ==
    \E content \in FileContents, path \in {GoPath, MdPath} :
        LET a == openSelected(NewApp, [isDir |-> FALSE, path |-> path],
                              [ok |-> TRUE, data |-> content]) IN
        /\ fileContent = a.fileContent
        /\ fileModified = a.fileModified
        /\ mode = a.mode
        /\ activePanel = a.activePanel
        /\ editX = a.editX
        /\ editY = a.editY
        /\ scrollX = a.scrollX
        /\ scrollY = a.scrollY
        /\ crashed = a.crashed
        /\ ecvRan = a.ecvRan
        /\ currentFile = a.currentFile
        /\ fmtRuns = a.fmtRuns
        /\ savedContent = a.savedContent
        /\ call = NoCall
        /\ loop = NoLoop
        \* a terminal that shows the whole buffer
        /\ termW = leftWidth + 2 + textEditorPadding + MaxFileLen + 2
        /\ termH = 5 + MaxFileLen + 2
        /\ lastOp = "open-ok"
        /\ screen = <<>>
        /\ HlIdle
        /\ ThIdle

\* one iteration of Run that polls the key event ev (draw, PollEvent,
\* handleKey), the environment answering env to what the handler asks of it
FileEvent(ev, env, op) ==
    /\ ~crashed
    /\ \E d \in {draw(App, termW, termH)} :
       \E a \in {handleKeyFile(d, ev, env, termW, termH)} :
           /\ Len(a.fileContent) <= MaxFileLen
           /\ Becomes(a)
    /\ lastOp' = op
    /\ UNCHANGED <<termW, termH>>
    /\ UNCHANGED <<hlVars, screen, thVars>>

\* the keys that edit and move on the right panel
EditEvents ==
    {Ev("KeyBackspace2", DEL, FALSE), Ev("KeyDelete", NoRune, FALSE),
     Ev("KeyUp", NoRune, FALSE), Ev("KeyDown", NoRune, FALSE),
     Ev("KeyLeft", NoRune, FALSE), Ev("KeyRight", NoRune, FALSE),
     Ev("KeyEnter", NoRune, FALSE), Ev("KeyRune", "a", FALSE)}

EditKey ==
    /\ activePanel = "right"
    /\ \E ev \in EditEvents : FileEvent(ev, NoEnv, "key")

\* Ctrl+Left, Ctrl+Right
FocusLeft  == FileEvent(Ev("KeyLeft", NoRune, TRUE), NoEnv, "key")
FocusRight == FileEvent(Ev("KeyRight", NoRune, TRUE), NoEnv, "key")

\* Right or Enter on the left panel
OpenSelected ==
    /\ activePanel = "left"
    /\ \E key \in {"KeyRight", "KeyEnter"}, sel \in Entries, read \in Reads :
        FileEvent(Ev(key, NoRune, FALSE), [NoEnv EXCEPT !.sel = sel, !.read = read],
                  IF sel.isDir THEN "key"
                  ELSE IF read.ok THEN "open-ok" ELSE "open-failed")

\* Ctrl+S, delivered as KeyCtrlS with or without the rune 0x13
Save ==
    \E r \in {NoRune, CtrlS}, writeOk \in BOOLEAN :
        FileEvent(Ev("KeyCtrlS", r, TRUE), [NoEnv EXCEPT !.writeOk = writeOk],
                  IF writeOk THEN "save-ok" ELSE "save-failed")

\* Ctrl+F or Ctrl+G on a Go file, delivered with or without its control rune
Format ==
    /\ isGoFile(App)
    /\ \E k \in {<<"KeyCtrlF", CtrlF>>, <<"KeyCtrlG", CtrlG>>}, run \in Runs :
       \E r \in {NoRune, k[2]} :
        FileEvent(Ev(k[1], r, TRUE), [NoEnv EXCEPT !.run = run],
                  IF run.ok THEN "format-ok" ELSE "format-failed")

\* Ctrl+F or Ctrl+G on a file that is not a Go file
FormatOther ==
    /\ ~isGoFile(App)
    /\ \E k \in {<<"KeyCtrlF", CtrlF>>, <<"KeyCtrlG", CtrlG>>} :
       \E r \in {NoRune, k[2]} :
        FileEvent(Ev(k[1], r, TRUE), NoEnv, "key")

NextFile ==
    \/ EditKey
    \/ FocusLeft
    \/ FocusRight
    \/ OpenSelected
    \/ Save
    \/ Format
    \/ FormatOther

SpecFile == InitFile /\ [][NextFile]_vars

(***************************************************************************)
(* SpecDraw: drawTextEditor (main.go) on a file open in the editor, with   *)
(* any cursor of the buffer and any scroll offsets the keys and a resize   *)
(* can have left.  screen is the list of rows, a row the cells SetContent  *)
(* was given in order: column (from startX), rune, style, and whether the  *)
(* style was inverted for the cursor.                                      *)
(***************************************************************************)
MaxDrawLen == 3     \* runes (line feeds included) in the buffer drawn

DrawRunes == {"i", "W", NL}

RECURSIVE HighlightLines(_, _, _, _)
\* the loop over the lines of highlightGoSyntaxLines
HighlightLines(lines, i, st, out) ==
    IF i > Len(lines) THEN out
    ELSE LET r == Scan(lines[i], 1, LineStart(st), <<>>) IN
         HighlightLines(lines, i + 1, r.st, Append(out, r.row))

\* App.highlightGoSyntaxLines
highlightGoSyntaxLines(lines) == HighlightLines(lines, 1, HlNormal, <<>>)

EdCell(col, r, style, inv) == [col |-> col, r |-> r, style |-> style, inv |-> inv]

RECURSIVE DrawHighlighted(_, _, _, _, _, _, _, _, _)
\* the loops "for _, token := range highlighted" and "for k := 0; ..." of the
\* highlighted branch: t and k are 1-based, currentCol and col as in the code
DrawHighlighted(tokens, t, k, currentCol, col, cells, a, lineIdx, editorWidth) ==
    IF t > Len(tokens) THEN cells
    ELSE LET runes == tokens[t].text
             \* the inner loop is left: "if col >= editorWidth { break }"
             after == IF col >= editorWidth THEN cells
                      ELSE DrawHighlighted(tokens, t + 1, 1, currentCol, col, cells,
                                           a, lineIdx, editorWidth)
         IN IF k > Len(runes) THEN after
            ELSE IF currentCol < a.scrollX
            THEN DrawHighlighted(tokens, t, k + 1, currentCol + 1, col, cells,
                                 a, lineIdx, editorWidth)
            ELSE IF col >= editorWidth \/ col + RuneWidth(runes[k]) > editorWidth
            THEN after
            ELSE DrawHighlighted(
                     tokens, t, k + 1, currentCol + 1, col + RuneWidth(runes[k]),
                     Append(cells,
                            EdCell(col, runes[k], tokens[t].style,
                                   /\ a.activePanel = "right"
                                   /\ lineIdx = a.editY
                                   /\ currentCol = a.editX)),
                     a, lineIdx, editorWidth)

RECURSIVE DrawPlain(_, _, _, _, _, _, _)
\* the loop "for k := a.scrollX; k < len(runes); k++" of the plain branch; k is
\* 0-based
DrawPlain(runes, k, col, cells, a, lineIdx, editorWidth) ==
    IF k >= Len(runes) THEN cells
    ELSE IF col >= editorWidth \/ col + RuneWidth(runes[k + 1]) > editorWidth
    THEN cells
    ELSE DrawPlain(runes, k + 1, col + RuneWidth(runes[k + 1]),
                   Append(cells,
                          EdCell(col, runes[k + 1], "default",
                                 /\ a.activePanel = "right"
                                 /\ lineIdx = a.editY
                                 /\ k = a.editX)),
                   a, lineIdx, editorWidth)

\* "Если курсор находится в конце строки": the inverted space after the last
\* rune of the cursor's line
EndCursor(runes, cells, a, lineIdx, editorWidth) ==
    IF a.activePanel = "right" /\ lineIdx = a.editY /\ a.editX = Len(runes)
    THEN LET c == runesDisplayWidth(runes, a.editX) - runesDisplayWidth(runes, a.scrollX)
         IN IF c >= 0 /\ c < editorWidth
            THEN Append(cells, EdCell(c, " ", "default", TRUE))
            ELSE cells
    ELSE cells

\* one iteration of "for i := 0; i < editorHeight; i++": the cells of row i
EditorRow(a, i, lines, highlightedLines, highlighted, editorWidth) ==
    LET lineIdx == a.scrollY + i IN
    IF lineIdx >= Len(lines)
    THEN IF a.activePanel = "right" /\ lineIdx = a.editY /\ 0 < editorWidth
         THEN <<EdCell(0, " ", "default", TRUE)>>
         ELSE <<>>
    ELSE LET runes == lines[lineIdx + 1] IN
         EndCursor(runes,
                   IF highlighted
                   THEN DrawHighlighted(highlightedLines[lineIdx + 1], 1, 1, 0, 0, <<>>,
                                        a, lineIdx, editorWidth)
                   ELSE DrawPlain(runes, a.scrollX, 0, <<>>, a, lineIdx, editorWidth),
                   a, lineIdx, editorWidth)

\* the rows drawTextEditor draws after ensureCursorVisible, in the branch
\* isGoFile chooses
EditorRows(a, tw, th, highlighted) ==
    LET lines == getLines(a.fileContent)
        hls   == IF highlighted THEN highlightGoSyntaxLines(lines) ELSE <<>>
    IN [y \in 1..EditorHeight(th) |->
            EditorRow(a, y - 1, lines, hls, highlighted, EditorWidth(tw))]

\* a file opened and edited: any cursor of the buffer, any scroll offsets
InitDraw ==
    \E content \in Strings(DrawRunes, MaxDrawLen), path \in {GoPath, MdPath} :
        LET a     == [openFile(NewApp, content) EXCEPT !.currentFile = path]
            lines == getLines(content)
        IN
        /\ fileContent = a.fileContent
        /\ fileModified = a.fileModified
        /\ mode = a.mode
        /\ activePanel \in {"left", "right"}
        /\ editY \in 0..(Len(lines) - 1)
        /\ editX \in 0..Len(lines[editY + 1])
        /\ scrollX \in 0..MaxScrollX
        /\ scrollY \in 0..(Len(lines) - 1)
        /\ crashed = a.crashed
        /\ ecvRan = a.ecvRan
        /\ currentFile = path
        /\ fmtRuns = 0
        /\ savedContent = <<>>
        /\ call = NoCall
        /\ loop = NoLoop
        /\ termW \in TermWidths
        /\ termH = 6
        /\ lastOp = "open"
        /\ screen = <<>>
        /\ HlIdle
        /\ ThIdle

\* App.drawTextEditor: ensureCursorVisible, then the rows
DrawTextEditor ==
    /\ lastOp = "open"
    /\ \E a \in {ensureCursorVisible(App, termW, termH)} :
        /\ Becomes(a)
        /\ screen' = EditorRows(a, termW, termH, isGoFile(a))
    /\ lastOp' = "draw"
    /\ UNCHANGED <<termW, termH>>
    /\ UNCHANGED <<hlVars, thVars>>

NextDraw == DrawTextEditor

SpecDraw == InitDraw /\ [][NextDraw]_vars

(***************************************************************************)
(* SpecEnter: Enter, then Backspace, on a file open in the editor with the *)
(* cursor anywhere in the buffer (main.go).  call.arg keeps the content    *)
(* and the cursor the two keys started from.                               *)
(***************************************************************************)
MaxEnterLen == 3    \* runes (line feeds included) in the buffer

\* the carriage return (0x0D) the terminal sends for Enter
CR == "\r"

InitEnter ==
    \E content \in Strings({"a", NL}, MaxEnterLen) :
        LET a     == [openFile(NewApp, content) EXCEPT !.activePanel = "right"]
            lines == getLines(content)
        IN
        /\ fileContent = a.fileContent
        /\ fileModified = a.fileModified
        /\ mode = a.mode
        /\ activePanel = a.activePanel
        /\ editY \in 0..(Len(lines) - 1)
        /\ editX \in 0..Len(lines[editY + 1])
        /\ scrollX = a.scrollX
        /\ scrollY = a.scrollY
        /\ crashed = a.crashed
        /\ ecvRan = a.ecvRan
        /\ currentFile = GoPath
        /\ fmtRuns = 0
        /\ savedContent = <<>>
        /\ call = [arg |-> <<content, editX, editY>>, ret |-> <<>>]
        /\ loop = NoLoop
        /\ termW \in TermWidths
        /\ termH = 6
        /\ lastOp = "open"
        /\ screen = <<>>
        /\ HlIdle
        /\ ThIdle

\* one iteration of Run that polls the key event ev: draw, PollEvent, handleKey
EnterStep(ev, op) ==
    /\ ~crashed
    /\ \E d \in {draw(App, termW, termH)} :
       \E a \in {handleKey(d, ev, termW, termH)} : Becomes(a)
    /\ lastOp' = op
    /\ UNCHANGED <<termW, termH>>
    /\ UNCHANGED <<hlVars, screen, thVars>>

\* Enter, delivered as KeyEnter with or without the rune 0x0D
EnterKey ==
    /\ lastOp = "open"
    /\ \E r \in {NoRune, CR} : EnterStep(Ev("KeyEnter", r, FALSE), "enter")

\* Backspace after it
BackspaceKey ==
    /\ lastOp = "enter"
    /\ EnterStep(Ev("KeyBackspace2", DEL, FALSE), "backspace")

NextEnter ==
    \/ EnterKey
    \/ BackspaceKey

SpecEnter == InitEnter /\ [][NextEnter]_vars

(***************************************************************************)
(* SpecBuffer: setLines, getLines and clampCursor applied to any list of   *)
(* lines and any cursor (main.go).                                         *)
(***************************************************************************)
MaxBufLines == 2    \* lines in a list handed to setLines
MaxBufLen == 2      \* runes in each of these lines

\* lines without a line feed, and the lists of them
BufLines  == Strings(EditRunes \ {NL}, MaxBufLen)
LineLists == UNION {[1..k -> BufLines] : k \in 0..MaxBufLines}

\* any cursor, negative and too large included
CursorValues == -1..(IF MaxBufLen > MaxBufLines THEN MaxBufLen ELSE MaxBufLines) + 1

\* a new App whose cursor fields hold any integers; call.arg is the list
\* setLines will be given
InitBuffer ==
    \E lines \in LineLists, x \in CursorValues, y \in CursorValues :
        /\ fileContent = NewApp.fileContent
        /\ fileModified = NewApp.fileModified
        /\ mode = NewApp.mode
        /\ activePanel = "right"
        /\ editX = x
        /\ editY = y
        /\ scrollX = 0
        /\ scrollY = 0
        /\ crashed = FALSE
        /\ ecvRan = FALSE
        /\ currentFile = GoPath
        /\ fmtRuns = 0
        /\ savedContent = <<>>
        /\ call = [arg |-> lines, ret |-> <<>>]
        /\ loop = NoLoop
        /\ termW = leftWidth + 2 + textEditorPadding + 1
        /\ termH = 6
        /\ lastOp = "new"
        /\ screen = <<>>
        /\ HlIdle
        /\ ThIdle

BufferFrame ==
    /\ UNCHANGED <<termW, termH>>
    /\ UNCHANGED <<hlVars, screen, thVars>>

\* a.setLines(lines), then a.getLines()
SetLines ==
    /\ lastOp = "new"
    /\ \E a \in {setLines(App, call.arg)} :
        Becomes([a EXCEPT !.call = [arg |-> call.arg, ret |-> getLines(a.fileContent)]])
    /\ lastOp' = "setLines"
    /\ BufferFrame

\* a.clampCursor()
ClampCursor ==
    /\ lastOp = "setLines"
    /\ Becomes(clampCursor(App))
    /\ lastOp' = "clampCursor"
    /\ BufferFrame

\* a.clampCursor() once more
ClampCursorAgain ==
    /\ lastOp = "clampCursor"
    /\ Becomes(clampCursor(App))
    /\ lastOp' = "clampCursorAgain"
    /\ BufferFrame

NextBuffer ==
    \/ SetLines
    \/ ClampCursor
    \/ ClampCursorAgain

SpecBuffer == InitBuffer /\ [][NextBuffer]_vars

(***************************************************************************)
(* SpecColor: parseColor (part_000).  A tcell.Color is a 64-bit value,     *)
(* held as its two 32-bit words read as signed integers: hi carries the    *)
(* flag bits (ColorValid is bit 32, ColorIsRGB bit 33), lo the palette     *)
(* index or the 24-bit colour.  A negative int converted to Color has      *)
(* every bit of hi set, which reads as -1.                                 *)
(***************************************************************************)
MaxColorLen == 3    \* runes in a colour string drawn from ColorRunes

\* tcell.ColorDefault, the zero value
ColorDefault == [hi |-> 0, lo |-> 0]

\* tcell.Color(n) of an int n
ColorOfInt(n) == [hi |-> IF n < 0 THEN -1 ELSE 0, lo |-> n]

\* tcell.ColorBlack + k: ColorValid with the palette index k
PaletteColor(k) == [hi |-> 1, lo |-> k]

\* tcell.NewRGBColor(r, g, b): ColorIsRGB | ColorValid | r<<16 | g<<8 | b
NewRGBColor(r, g, b) ==
    [hi |-> 3, lo |-> (r % 256) * 65536 + (g % 256) * 256 + (b % 256)]

UpperRunes == <<"A", "B", "C", "D", "E", "F", "G", "H", "I", "J", "K", "L", "M",
                "N", "O", "P", "Q", "R", "S", "T", "U", "V", "W", "X", "Y", "Z">>
LowerRunes == <<"a", "b", "c", "d", "e", "f", "g", "h", "i", "j", "k", "l", "m",
                "n", "o", "p", "q", "r", "s", "t", "u", "v", "w", "x", "y", "z">>

\* unicode.ToLower on the runes used here
LowerOf(r) ==
    IF \E i \in 1..26 : UpperRunes[i] = r
    THEN LowerRunes[CHOOSE i \in 1..26 : UpperRunes[i] = r]
    ELSE r

\* strings.ToLower
ToLower(s) == [i \in 1..Len(s) |-> LowerOf(s[i])]

DecRunes == <<"0", "1", "2", "3", "4", "5", "6", "7", "8", "9">>
HexLowerRunes == DecRunes \o <<"a", "b", "c", "d", "e", "f">>

\* the value of a digit in base 16 or 10, -1 for any other rune
DigitValue(r, base) ==
    LET l == LowerOf(r) IN
    IF \E i \in 1..base : HexLowerRunes[i] = l
    THEN (CHOOSE i \in 1..base : HexLowerRunes[i] = l) - 1
    ELSE -1

RECURSIVE DigitsValue(_, _, _)
\* the number the digits of s spell in the base, acc being that of the digits before
DigitsValue(s, base, acc) ==
    IF s = <<>> THEN acc
    ELSE DigitsValue(Tail(s), base, acc * base + DigitValue(s[1], base))

\* strconv.ParseUint(s, 16, 32) on at most 6 runes: digits only, no sign
ParseUint16(s) ==
    IF s # <<>> /\ \A i \in 1..Len(s) : DigitValue(s[i], 16) >= 0
    THEN [ok |-> TRUE, v |-> DigitsValue(s, 16, 0)]
    ELSE [ok |-> FALSE, v |-> 0]

\* strconv.Atoi on a string short enough to fit an int: an optional sign,
\* then decimal digits only
Atoi(s) ==
    LET signed == s # <<>> /\ s[1] \in {"+", "-"}
        digits == IF signed THEN Tail(s) ELSE s
    IN
    IF digits # <<>> /\ \A i \in 1..Len(digits) : DigitValue(digits[i], 10) >= 0
    THEN [ok |-> TRUE,
          n |-> IF signed /\ s[1] = "-" THEN 0 - DigitsValue(digits, 10, 0)
                ELSE DigitsValue(digits, 10, 0)]
    ELSE [ok |-> FALSE, n |-> 0]

\* "abc" -> "abcabc"
ExpandRepeated(hex) == hex \o hex

\* expand "abc" -> "aabbcc"
Expand(hex) == <<hex[1], hex[1], hex[2], hex[2], hex[3], hex[3]>>

\* the strings that stand for the terminal default
Sentinels ==
    {<<"d", "e", "f", "a", "u", "l", "t">>, <<"t", "e", "r", "m", "i", "n", "a", "l">>,
     <<"n", "o", "n", "e">>, <<"t", "r", "a", "n", "s", "p", "a", "r", "e", "n", "t">>}

\* "имена": the switch on lower; the palette index is the tcell constant
\* minus ColorBlack
ColorNames ==
    {<< <<"b", "l", "a", "c", "k">>, 0 >>, << <<"r", "e", "d">>, 9 >>,
     << <<"g", "r", "e", "e", "n">>, 2 >>, << <<"y", "e", "l", "l", "o", "w">>, 11 >>,
     << <<"b", "l", "u", "e">>, 12 >>, << <<"m", "a", "g", "e", "n", "t", "a">>, 5 >>,
     << <<"p", "u", "r", "p", "l", "e">>, 5 >>, << <<"c", "y", "a", "n">>, 6 >>,
     << <<"t", "e", "a", "l">>, 6 >>, << <<"w", "h", "i", "t", "e">>, 15 >>,
     << <<"g", "r", "a", "y">>, 8 >>, << <<"g", "r", "e", "y">>, 8 >>}

\* parseColor
parseColor(str) ==
    LET s     == TrimSpace(str)
        lower == ToLower(s)
        hex0  == IF s # <<>> /\ s[1] = "#" THEN Tail(s) ELSE s
        hex   == IF Len(hex0) = 3 THEN Expand(hex0) ELSE hex0
        v     == ParseUint16(hex)
        n     == Atoi(s)
    IN
    IF s = <<>> THEN ColorDefault
    ELSE IF lower \in Sentinels THEN ColorDefault
    ELSE IF HasPrefix(s, <<"#">>) /\ Len(hex) = 6 /\ v.ok
    THEN NewRGBColor((v.v \div 65536) % 256, (v.v \div 256) % 256, v.v % 256)
    ELSE IF n.ok THEN ColorOfInt(n.n)
    ELSE IF \E e \in ColorNames : e[1] = lower
    THEN PaletteColor((CHOOSE e \in ColorNames : e[1] = lower)[2])
    ELSE ColorDefault

\* the colour strings parseColor is given
HexRunes   == {HexLowerRunes[i] : i \in 1..16} \cup {UpperRunes[i] : i \in 1..6}
ColorRunes == {"#", "-", "+", "0", "5", "a", "g", " "}
ShortHex   == {<<"#", a, b, c>> : a \in HexRunes, b \in HexRunes, c \in HexRunes}
ColorWords ==
    Sentinels \cup {e[1] : e \in ColorNames} \cup
    {<<"R", "e", "d">>, <<"N", "O", "N", "E">>, <<" ", "r", "e", "d", " ">>,
     <<"n", "o", "t", "-", "a", "-", "c", "o", "l", "o", "r">>,
     <<"#", "g", "g", "g">>, <<"#", "1", "2">>, <<"#", "g", "g", "g", "g", "g", "g">>,
     <<"#", "1", "2", "3", "4", "5", "6", "7">>, <<"2", "5", "5">>}
ColorInputs == Strings(ColorRunes, MaxColorLen) \cup ShortHex \cup ColorWords

\* a colour string of a theme file, not parsed yet
InitColor ==
    \E s \in ColorInputs :
        /\ fileContent = NewApp.fileContent
        /\ fileModified = NewApp.fileModified
        /\ mode = NewApp.mode
        /\ activePanel = NewApp.activePanel
        /\ editX = 0
        /\ editY = 0
        /\ scrollX = 0
        /\ scrollY = 0
        /\ crashed = FALSE
        /\ ecvRan = FALSE
        /\ currentFile = NewApp.currentFile
        /\ fmtRuns = 0
        /\ savedContent = <<>>
        /\ call = [arg |-> s, ret |-> ColorDefault]
        /\ loop = NoLoop
        /\ termW = leftWidth + 2 + textEditorPadding + 1
        /\ termH = 6
        /\ lastOp = "new"
        /\ screen = <<>>
        /\ HlIdle
        /\ ThIdle

ColorFrame ==
    UNCHANGED <<fileContent, fileModified, mode, activePanel, editX, editY,
                scrollX, scrollY, termW, termH, crashed, ecvRan, currentFile,
                fmtRuns, savedContent, loop, hlVars, screen, thVars>>

\* parseColor(s)
ParseColor ==
    /\ lastOp = "new"
    /\ call' = [arg |-> call.arg, ret |-> parseColor(call.arg)]
    /\ lastOp' = "parseColor"
    /\ ColorFrame

\* parseColor of the six-digit spelling of the three-digit string just parsed
ParseColorLong ==
    /\ lastOp = "parseColor"
    /\ call.arg \in ShortHex
    /\ \E long \in {<<"#">> \o Expand(Tail(call.arg))} :
        call' = [arg |-> long, ret |-> parseColor(long)]
    /\ lastOp' = "parseColorLong"
    /\ ColorFrame

NextColor ==
    \/ ParseColor
    \/ ParseColorLong

SpecColor == InitColor /\ [][NextColor]_vars

(***************************************************************************)
(* SpecLoop: Run of the Markdown build (src/unnamed/part_000) step by      *)
(* step, with the theme watcher goroutine beside it.  loop.pc is where the *)
(* main goroutine is: "draw" and "poll" are the two statements of the loop *)
(* of Run, the others are inside handleKey: saveFile and showHelp call     *)
(* a.draw() themselves, and showHelp polls the screen for events.          *)
(* loop.seen is what the last a.draw() has put on the screen, loop.old the *)
(* locals oldContent and oldActive of showHelp.                            *)
(***************************************************************************)
MaxLoopLen == 1     \* runes in the buffer Run starts with

LoopRunes == {"a", NL}

\* what a draw of a at the size tw x th shows: the fields the panels,
\* the status line and the cursor are drawn from
Shown(a, tw, th) ==
    <<a.fileContent, a.fileModified, a.mode, a.activePanel, a.editX, a.editY,
      a.scrollX, a.scrollY, tw, th>>

\* the locals of showHelp
HelpLocals(a) == [content |-> a.fileContent, active |-> a.activePanel]

\* the pcs at which the main goroutine is inside handleKey
HandlerPcs == {"save-draw", "save-rest", "help-draw", "help-poll", "help-redraw"}

\* the key events Run is given
LoopEvents ==
    {Ev("KeyRune", "a", FALSE), Ev("KeyRune", "?", FALSE),
     Ev("KeyBackspace2", DEL, FALSE), Ev("KeyEnter", NoRune, FALSE),
     Ev("KeyTab", NoRune, FALSE), Ev("KeyCtrlS", CtrlS, TRUE)}

\* NewApp and a file opened on the right panel; the watcher goroutine waits
\* for an event of the theme file
InitLoop ==
    \E content \in Strings(LoopRunes, MaxLoopLen) :
        LET a == [openFile(NewApp, content) EXCEPT !.activePanel = "right"] IN
        /\ fileContent = a.fileContent
        /\ fileModified = a.fileModified
        /\ mode = a.mode
        /\ activePanel = a.activePanel
        /\ editX = a.editX
        /\ editY = a.editY
        /\ scrollX = a.scrollX
        /\ scrollY = a.scrollY
        /\ crashed = a.crashed
        /\ ecvRan = FALSE
        /\ currentFile = MdPath
        /\ fmtRuns = 0
        /\ savedContent = <<>>
        /\ call = NoCall
        /\ loop = NoLoop
        /\ termW \in TermWidths
        /\ termH = 6
        /\ lastOp = "open"
        /\ screen = <<>>
        /\ HlIdle
        /\ theme = DefaultRef
        /\ themes = <<defaultTheme>>
        /\ themeMu = [w |-> NoProc, r |-> {}]
        /\ themeFile = [kind |-> "toml", ver |-> 1]
        /\ thPc = [p \in Procs |-> IF p = "main" THEN "idle" ELSE "wait"]
        /\ thLocal = [p \in Procs |-> NoLoad(Resting(p))]
        /\ thSeen = [got |-> Nil, ui |-> 0, md |-> 0]
        /\ thPublished = {DefaultRef}

\* a step of the main goroutine from pc to next that leaves the App as a
LoopStep(a, next, op) ==
    /\ \E b \in {[a EXCEPT !.loop.pc = next]} :
        /\ Len(b.fileContent) <= Len(HelpText)
        /\ Becomes(b)
    /\ lastOp' = op
    /\ UNCHANGED <<termW, termH>>
    /\ UNCHANGED <<hlVars, screen, thVars>>

\* a.draw() at pc, the main goroutine going on to next
DrawAt(pc, next, op) ==
    /\ ~crashed
    /\ loop.pc = pc
    /\ \E a \in {drawMd(App, termW, termH)} :
        LoopStep([a EXCEPT !.loop.seen = Shown(a, termW, termH)], next, op)

\* Run: a.draw()
RunDraw == DrawAt("draw", "poll", "draw")

\* Run: PollEvent returns a key event and handleKey is called.  Ctrl+S with a
\* write that succeeds runs saveFile up to its a.draw(), '?' runs showHelp up
\* to its first a.draw(); every other key is handled to the end
RunKey ==
    /\ ~crashed
    /\ loop.pc = "poll"
    /\ \E ev \in LoopEvents, writeOk \in BOOLEAN :
        IF ev.key = "KeyCtrlS"
        THEN IF writeOk /\ currentFile # <<>>
             THEN LoopStep([App EXCEPT !.fileModified = FALSE], "save-draw", "dispatch")
             ELSE LoopStep(handleKeyMd(App, ev, writeOk, termW, termH), "draw", "dispatch")
        ELSE /\ writeOk
             /\ IF ev.rune = "?"
                THEN LoopStep([App EXCEPT !.loop.old = HelpLocals(App),
                                          !.fileContent = HelpText,
                                          !.activePanel = "right"],
                              "help-draw", "dispatch")
                ELSE \E a \in {handleKeyMd(App, ev, writeOk, termW, termH)} :
                         /\ Len(a.fileContent) <= MaxLoopLen + 1
                         /\ LoopStep(a, "draw", "dispatch")

\* Run: PollEvent returns an EventResize (the terminal has another width):
\* screen.Sync()
RunResize ==
    /\ ~crashed
    /\ loop.pc = "poll"
    /\ \E w \in TermWidths \ {termW} : termW' = w
    /\ UNCHANGED termH
    /\ \E a \in {[App EXCEPT !.loop.pc = "draw"]} : Becomes(a)
    /\ lastOp' = "dispatch"
    /\ UNCHANGED <<hlVars, screen, thVars>>

\* saveFile: a.draw()
SaveDraw == DrawAt("save-draw", "save-rest", "draw")

\* saveFile returns into handleKey, which goes on after the command switch
SaveRest ==
    /\ ~crashed
    /\ loop.pc = "save-rest"
    /\ \E a \in {handleKey(App, Ev("KeyCtrlS", CtrlS, TRUE), termW, termH)} :
        /\ Len(a.fileContent) <= MaxLoopLen + 1
        /\ LoopStep(a, "draw", "return")

\* showHelp: a.draw() with the help text in fileContent
HelpDraw == DrawAt("help-draw", "help-poll", "draw")

\* showHelp: PollEvent in "for { ... }" returns a key event, which ends the
\* loop, and the content and the panel are put back (an event of another
\* type is dropped and the loop polls again: no step)
HelpPoll ==
    /\ ~crashed
    /\ loop.pc = "help-poll"
    /\ LoopStep([App EXCEPT !.fileContent = loop.old.content,
                            !.activePanel = loop.old.active,
                            !.loop.old = <<>>],
                "help-redraw", "help-key")

\* showHelp: the last a.draw(); showHelp and handleKey return
HelpRedraw == DrawAt("help-redraw", "draw", "draw")

\* the watcher goroutine: reloadTheme on an event of the theme file
Watcher ==
    /\ ~crashed
    /\ \/ ReloadTheme("watcher")
       \/ StatTheme("watcher")
       \/ DecodeTheme("watcher")
       \/ DecodeRest("watcher")
       \/ LockTheme("watcher")
       \/ StoreTheme("watcher")
       \/ UnlockTheme("watcher")

NextLoop ==
    \/ RunDraw
    \/ RunKey
    \/ RunResize
    \/ SaveDraw
    \/ SaveRest
    \/ HelpDraw
    \/ HelpPoll
    \/ HelpRedraw
    \/ Watcher

SpecLoop == InitLoop /\ [][NextLoop]_vars

(***************************************************************************)
(* SpecRedraw: App.draw of the Markdown build (part_000) panel by panel,   *)
(* with the theme watcher goroutine beside it.  thPc["main"] is where draw *)
(* is: "idle" before screen.Clear(), then "list", "editor", "status" before*)
(* the draw function of that name, "show" before screen.Show().  screen is *)
(* the list of the Theme values the draw functions of this draw have       *)
(* styled their panel from.                                                *)
(***************************************************************************)
InitRedraw ==
    /\ fileContent = <<>>
    /\ fileModified = FALSE
    /\ mode = "edit"
    /\ activePanel = "left"
    /\ editX = 0
    /\ editY = 0
    /\ scrollX = 0
    /\ scrollY = 0
    /\ termW \in {leftWidth + 2 + textEditorPadding + 1}
    /\ termH \in {6}
    /\ crashed = FALSE
    /\ lastOp = "open"
    /\ ecvRan = FALSE
    /\ currentFile = MdPath
    /\ fmtRuns = 0
    /\ savedContent = <<>>
    /\ call = NoCall
    /\ loop = NoLoop
    /\ screen = <<>>
    /\ HlIdle
    /\ theme = DefaultRef
    /\ themes = <<defaultTheme>>
    /\ themeMu = [w |-> NoProc, r |-> {}]
    /\ themeFile \in FileStates
    /\ thPc = [p \in Procs |-> IF p = "main" THEN "idle" ELSE "wait"]
    /\ thLocal = [p \in Procs |-> NoLoad(Resting(p))]
    /\ thSeen = [got |-> Nil, ui |-> 0, md |-> 0]
    /\ thPublished = {DefaultRef}

\* a step of draw from pc to next that leaves shown on the screen
RedrawStep(pc, next, shown) ==
    /\ thPc["main"] = pc
    /\ thPc' = [thPc EXCEPT !["main"] = next]
    /\ screen' = shown
    /\ UNCHANGED <<theme, themes, themeMu, themeFile, thLocal, thSeen, thPublished>>
    /\ UNCHANGED <<appVars, hlVars>>

\* a draw function: "theme := a.getTheme()", the read lock taken and released
\* around the read of a.theme, then the panel styled from *theme
PanelDraw(pc, next) ==
    /\ themeMu.w = NoProc
    /\ RedrawStep(pc, next, Append(screen, themes[theme]))

\* draw: a.screen.Clear()
DrawClear == RedrawStep("idle", "list", <<>>)

\* draw: a.drawFileList()
DrawFileList == PanelDraw("list", "editor")

\* draw: a.drawEditor(), which calls drawTextEditor or drawPreview
DrawEditor == PanelDraw("editor", "status")

\* draw: a.drawStatus()
DrawStatus == PanelDraw("status", "show")

\* draw: a.screen.Show()
DrawShow == RedrawStep("show", "idle", screen)

NextRedraw ==
    \/ DrawClear
    \/ DrawFileList
    \/ DrawEditor
    \/ DrawStatus
    \/ DrawShow
    \/ FileChange
    \/ Watcher

SpecRedraw == InitRedraw /\ [][NextRedraw]_vars

(***************************************************************************)
(* Claims.                                                                 *)
(***************************************************************************)
CursorLine == getLines(fileContent)[editY + 1]

\* C1: from a freshly opened file, after any sequence of edit-mode key events
\* on the right panel the cursor satisfies 0 <= editY < len(lines) and
\* 0 <= editX <= len(runes(lines[editY])).
C1_PositionInvariant ==
    /\ 0 <= editY
    /\ editY < Len(getLines(fileContent))
    /\ 0 <= editX
    /\ editX <= Len(CursorLine)

\* C2: the buffer always has at least one line: getLines gives exactly one
\* empty line for empty content, and the line count stays >= 1 after any
\* sequence of inserts, Backspaces, Deletes and Enters.
C2_BufferNonEmpty ==
    /\ Len(getLines(fileContent)) >= 1
    /\ fileContent = <<>> => getLines(fileContent) = << <<>> >>

\* a Backspace or Delete has emptied the buffer
C2_Witness ==
    /\ lastOp \in {"backspace", "backspace-merge", "delete", "delete-merge"}
    /\ fileModified
    /\ fileContent = <<>>

\* C3: after ensureCursorVisible returns with the cursor on an existing line,
\* scrollY <= editY < scrollY + height.
C3_VerticalVisible ==
    (ecvRan /\ 0 <= editY /\ editY < Len(getLines(fileContent)))
        => (scrollY <= editY /\ editY < scrollY + EditorHeight(termH))

\* ensureCursorVisible has scrolled down to bring the cursor to the last row
C3_Witness ==
    /\ ecvRan
    /\ scrollY > 0
    /\ editY = scrollY + EditorHeight(termH) - 1
    /\ EditorHeight(termH) > 1

\* C4: after ensureCursorVisible returns, the cursor's display column lies in
\* [scrollDisp, scrollDisp + width), for lines of runes of width 0, 1 and 2.
C4_HorizontalVisible ==
    (ecvRan /\ 0 <= editY /\ editY < Len(getLines(fileContent)))
        => LET cursorDisp == runesDisplayWidth(CursorLine, editX)
               scrollDisp == runesDisplayWidth(CursorLine, scrollX)
           IN /\ scrollDisp <= cursorDisp
              /\ cursorDisp < scrollDisp + EditorWidth(termW)

(***************************************************************************)
(* Claims about the highlighter.                                           *)
(***************************************************************************)
RECURSIVE Concat(_)
\* the texts of a token row, joined
Concat(row) == IF row = <<>> THEN <<>> ELSE row[1].text \o Concat(Tail(row))

\* C5: highlightGoSyntaxLines returns exactly one token row per input line,
\* and the token texts of a row, concatenated, are the line rune for rune,
\* whatever state (Normal, InString escaped or not, InRawString,
\* InBlockComment) is carried into the line.
C5_Lossless ==
    /\ hlPc = "row" => (Concat(hlRow) = hlLine /\ hlRows = hlRead - 1)
    /\ hlPc = "loop" => hlRows = hlRead

\* a line entered inside a string with the escape flag set, split in several tokens
C5_Witness ==
    /\ hlPc = "row"
    /\ hlStart.inString
    /\ hlStart.inEscape
    /\ Len(hlRow) >= 2

Least(S) == CHOOSE x \in S : \A y \in S : x <= y

Kind(st) ==
    IF st.inMultiComment THEN "comment"
    ELSE IF st.inRawString THEN "raw"
    ELSE IF st.inString THEN "string"
    ELSE "normal"

KindStyle(k) == IF k = "comment" THEN StyleComment ELSE StyleString

\* the backslashes that immediately precede position j of the line
RECURSIVE SlashRun(_, _)
SlashRun(line, j) ==
    IF j > 1 /\ line[j - 1] = "\\" THEN 1 + SlashRun(line, j - 1) ELSE 0

\* position j of a line inside a string is not escaped: an even number of
\* backslashes precedes it, counting the one pending from the line before
Unescaped(line, j, esc) ==
    LET k == SlashRun(line, j)
        n == IF esc /\ k = j - 1 THEN k + 1 ELSE k
    IN n % 2 = 0

\* where the construct of kind k ends in the line (the index of the last rune
\* of its terminator), 0 when the line does not terminate it
TermEnd(line, k, esc) ==
    LET S == IF k = "comment"
             THEN {j + 1 : j \in {i \in 1..(Len(line) - 1) :
                                      line[i] = "*" /\ line[i + 1] = "/"}}
             ELSE IF k = "raw"
             THEN {j \in 1..Len(line) : line[j] = BT}
             ELSE {j \in 1..Len(line) : line[j] = "\"" /\ Unescaped(line, j, esc)}
    IN IF S = {} THEN 0 ELSE Least(S)

\* the construct a token opens and leaves open, "normal" when it opens none
\* or closes it
LeftOpen(tok) ==
    LET t == tok.text IN
    IF tok.style = StyleComment /\ Len(t) >= 2 /\ t[1] = "/" /\ t[2] = "*"
    THEN IF TermEnd(SubSeq(t, 3, Len(t)), "comment", FALSE) = 0
         THEN "comment" ELSE "normal"
    ELSE IF tok.style = StyleString /\ t[1] = BT
    THEN IF TermEnd(Tail(t), "raw", FALSE) = 0 THEN "raw" ELSE "normal"
    ELSE IF tok.style = StyleString /\ t[1] = "\""
    THEN IF TermEnd(Tail(t), "string", FALSE) = 0 THEN "string" ELSE "normal"
    ELSE "normal"

\* a line entered inside a construct: its runes up to the terminator are one
\* token of the construct's style, and the rest is scanned from Normal
C6_Continues ==
    LET k == Kind(hlStart)
        t == TermEnd(hlLine, k, hlStart.inEscape)
    IN (hlPc = "row" /\ k # "normal") =>
        IF hlLine = <<>> THEN hlRow = <<>> /\ hl = hlStart
        ELSE IF t = 0
        THEN /\ hlRow = << [text |-> hlLine, style |-> KindStyle(k)] >>
             /\ Kind(hl) = k
        ELSE /\ hlRow[1] = [text |-> SubSeq(hlLine, 1, t), style |-> KindStyle(k)]
             /\ [row |-> Tail(hlRow), st |-> hl]
                    = Scan(SubSeq(hlLine, t + 1, Len(hlLine)), 1, HlNormal, <<>>)

\* a line leaves the state of the construct its last token opened and did not
\* terminate, Normal when there is none
C6_Opens ==
    (hlPc = "row" /\ (Kind(hlStart) = "normal" \/ Len(hlRow) >= 2) /\ hlRow # <<>>)
        => Kind(hl) = LeftOpen(hlRow[Len(hlRow)])

\* C6: the highlighter state is carried from line to line: a line starts in
\* the state the previous line ended in; a block comment, raw string or
\* string opened and not terminated on its line styles every rune of the
\* following lines up to and including the terminator, and the state is
\* Normal right after the terminator.
C6_StateCarried ==
    /\ [](C6_Continues /\ C6_Opens)
    /\ [][hlRead' = hlRead + 1 => hlStart' = hl]_vars

\* the third line at least is entered inside a block comment, closes it and
\* goes on with tokens scanned from Normal
C6_Witness ==
    /\ hlPc = "row"
    /\ hlRead >= 3
    /\ hlStart.inMultiComment
    /\ Len(hlRow) >= 2
    /\ hl = HlNormal

(***************************************************************************)
(* The preview: what the claims say of the rows drawPreview has drawn.     *)
(***************************************************************************)
\* the lines of the buffer, and the row of the right panel line i is drawn on
MdLines == Split(fileContent)

IsFence(line) == HasPrefix(TrimRight(line, {"\r", NL}), Fence)

\* the fence lines among the lines before line i (0-based) of the whole buffer
FencesBefore(i) == Cardinality({j \in 0..(i - 1) : IsFence(MdLines[j + 1])})

InFence(i) == FencesBefore(i) % 2 = 1

\* the rows of the panel that show a line: row y shows line scrollY + y
VisibleRows == {y \in 0..(Len(screen) - 1) : scrollY + y < Len(MdLines)}

RowCells(y) == {screen[y + 1][k] : k \in 1..Len(screen[y + 1])}

\* the runes of line i that inline rendering works on
Rendered(i) == LineStyle(TrimRight(MdLines[i + 1], {"\r", NL}), InFence(i)).runes

\* C7: for every buffer and every scrollY the preview renders a visible
\* non-fence line with the code-block style if and only if an odd number of
\* fence lines precede it in the whole buffer.
C7_FenceIndependentOfScroll ==
    mode = "preview" =>
        \A y \in VisibleRows :
            ~IsFence(MdLines[scrollY + y + 1]) =>
                \A c \in RowCells(y) :
                    (c.style.elem = "CodeBlock") <=> InFence(scrollY + y)

\* C8: every fence line emits no cell at all, and every line between an
\* opening fence and the next closing fence is emitted with the code-block
\* style.
C8_FenceHandling ==
    mode = "preview" =>
        \A y \in VisibleRows :
            LET i == scrollY + y IN
            /\ IsFence(MdLines[i + 1]) => screen[y + 1] = <<>>
            /\ ( /\ ~IsFence(MdLines[i + 1])
                 /\ InFence(i)
                 /\ \E j \in (i + 1)..(Len(MdLines) - 1) : IsFence(MdLines[j + 1]) )
               => \A c \in RowCells(y) : c.style = MdStyle("CodeBlock")

\* in the runes l (indices 0-based): a '[' at p, the next ']' at q immediately
\* followed by '(', and the next ')' after that at e
LinkAt(l, p, q, e) ==
    /\ p < q /\ q + 1 < e /\ e < Len(l)
    /\ l[p + 1] = "["
    /\ l[q + 1] = "]"
    /\ \A j \in (p + 1)..(q - 1) : l[j + 1] # "]"
    /\ l[q + 2] = "("
    /\ l[e + 1] = ")"
    /\ \A j \in (q + 2)..(e - 1) : l[j + 1] # ")"

\* C9: for every line outside a fence and every horizontal scroll offset, when
\* a '[' is followed by a ']' that is immediately followed by '(' and a later
\* ')', only the runes between '[' and ']' are emitted, with the link style;
\* none of '[', ']', '(', ')' nor any rune of the URL is emitted.
C9_LinkTextOnly ==
    mode = "preview" =>
        \A y \in VisibleRows :
            LET i == scrollY + y
                l == Rendered(i)
            IN (~IsFence(MdLines[i + 1]) /\ ~InFence(i)) =>
                \A p, q, e \in 0..(Len(l) - 1) :
                    LinkAt(l, p, q, e) =>
                        \A c \in RowCells(y) :
                            /\ c.idx # p
                            /\ c.idx \notin q..e
                            /\ (p < c.idx /\ c.idx < q) => c.style = MdStyle("Link")

\* the backticks among the first n runes of l
Backticks(l, n) == Cardinality({j \in 1..Len(l) : j <= n /\ l[j] = BT})

\* C10: outside a fenced block (the line drawn from its first rune) every
\* backtick toggles inline-code mode and is never emitted, and the runes
\* between an opening backtick and the next backtick are emitted with the
\* inline-code style.
C10_InlineCode ==
    (mode = "preview" /\ scrollX = 0) =>
        \A y \in VisibleRows :
            LET i == scrollY + y
                l == Rendered(i)
            IN (~IsFence(MdLines[i + 1]) /\ ~InFence(i)) =>
                \A c \in RowCells(y) :
                    /\ c.r # BT
                    /\ ( /\ Backticks(l, c.idx) % 2 = 1
                         /\ \E j \in (c.idx + 2)..Len(l) : l[j] = BT )
                       => c.style = MdStyle("InlineCode")

\* the heading prefix of level n: n times '#', then a space
HeadingPrefix(n) == [k \in 1..n |-> "#"] \o <<" ">>

\* the line i without its line end
TrimmedLine(i) == TrimRight(MdLines[i + 1], {"\r", NL})

\* C11: outside a fence a line beginning with "# ", "## " or "### " gets the
\* heading-1, heading-2 or heading-3 style, the prefix is removed before
\* inline rendering, and at most one of the three prefixes matches a line.
C11_Headings ==
    mode = "preview" =>
        \A y \in VisibleRows :
            LET i == scrollY + y
                t == TrimmedLine(i)
            IN /\ Cardinality({n \in 1..3 : HasPrefix(t, HeadingPrefix(n))}) <= 1
               /\ \A n \in 1..3 :
                    (~InFence(i) /\ HasPrefix(t, HeadingPrefix(n))) =>
                        \A c \in RowCells(y) :
                            /\ c.style.elem = <<"H1", "H2", "H3">>[n]
                            /\ c.idx + n + 2 <= Len(t)
                            /\ c.r = t[c.idx + n + 2]

\* the runes of the list prefix of t, a line listRe matches: the leading
\* whitespace, the marker '-', '+', '*' or 'N.', and the whitespace after it
ListPrefixLen(t) ==
    LET m == SkipWhile(t, 1, Space)
        d == SkipWhile(t, m, MdDigits)
        e == IF t[m] \in {"-", "+", "*"} THEN m + 1 ELSE d + 1
    IN SkipWhile(t, e, Space) - 1

\* the line t of a heading, a blockquote or a list item without its prefix
WithoutPrefix(t) ==
    IF \E n \in 1..3 : HasPrefix(t, HeadingPrefix(n))
    THEN LET n == CHOOSE k \in 1..3 : HasPrefix(t, HeadingPrefix(k)) IN
         SubSeq(t, n + 2, Len(t))
    ELSE IF HasPrefix(TrimLeft(t, {" "}), <<">", " ">>)
    THEN TrimSpace(SubSeq(TrimLeft(t, {" "}), 3, Len(TrimLeft(t, {" "}))))
    ELSE IF listRe(t) THEN SubSeq(t, ListPrefixLen(t) + 1, Len(t))
    ELSE t

\* the runes shown on row y, in the order they were set
RowRunes(y) == [k \in 1..Len(screen[y + 1]) |-> screen[y + 1][k].r]

\* the runes inline rendering emits for the runes l at the present scroll
\* offset and width
InlineRunes(l) ==
    LET cells == Inline(l, scrollX, 0, FALSE, FALSE, <<>>,
                        [base |-> MdStyle("Foreground"), inCodeBlock |-> FALSE,
                         editorWidth |-> EditorWidth(termW)])
    IN [k \in 1..Len(cells) |-> cells[k].r]

\* C12: for a heading, a blockquote and a list item alike (outside a fence)
\* the matched prefix is removed from the line before inline rendering and is
\* never emitted: the row shows what inline rendering makes of the rest.
C12_PrefixStripped ==
    mode = "preview" =>
        \A y \in VisibleRows :
            LET i == scrollY + y IN
            (~IsFence(MdLines[i + 1]) /\ ~InFence(i)) =>
                RowRunes(y) = InlineRunes(WithoutPrefix(TrimmedLine(i)))

\* the marker at index j (0-based) of l toggles emphasis as the claim has it:
\* neither the rune before it nor the rune after it is whitespace, and the
\* edge of the line is not whitespace
EdgeToggles(l, j) ==
    /\ l[j + 1] \in {"*", "_"}
    /\ (j = 0 \/ l[j] \notin Space)
    /\ (j = Len(l) - 1 \/ l[j + 2] \notin Space)

\* C13: an asterisk or underscore outside inline code toggles emphasis and is
\* not emitted if and only if neither the rune before it nor the rune after
\* it is whitespace, a marker at either edge of the line having no whitespace
\* on that side ("*bold*" is emphasised).  Checked on lines drawn from their
\* first rune, outside a fence.
C13_Emphasis ==
    (mode = "preview" /\ scrollX = 0) =>
        \A y \in VisibleRows :
            LET i == scrollY + y
                l == Rendered(i)
            IN (~IsFence(MdLines[i + 1]) /\ ~InFence(i)
                /\ \A k \in 1..Len(l) : l[k] # BT) =>
                \A c \in RowCells(y) :
                    c.idx < Len(l) =>
                        /\ ~EdgeToggles(l, c.idx)
                        /\ c.style.bold <=>
                             Cardinality({j \in 0..(c.idx - 1) : EdgeToggles(l, j)}) % 2 = 1

(***************************************************************************)
(* The theme: what the claims say of getTheme and of the loads.            *)
(***************************************************************************)
\* a Theme value is complete: its fields come from one version of the file
\* or are those of the built-in theme
Complete(t) == t.ui = t.md /\ t.ui # 0

\* what getTheme has returned is a reference a.theme has held, to a complete
\* value, and the fields read through it are those of one theme
C14_Returned ==
    /\ thSeen.got # Nil =>
        /\ thSeen.got \in thPublished
        /\ Complete(themes[thSeen.got])
    /\ (thSeen.got # Nil /\ thPc["main"] = "idle") => thSeen.ui = thSeen.md
    /\ ~(themeMu.w # NoProc /\ themeMu.r # {})

\* a step reads a.theme only under the shared lock, and gets the reference
\* held then; it writes a.theme only under the exclusive lock; it changes no
\* Theme value a.theme has held
C14_Step ==
    /\ thSeen'.got # thSeen.got /\ thSeen'.got # Nil =>
        /\ "main" \in themeMu.r
        /\ themeMu.w = NoProc
        /\ thSeen'.got = theme
    /\ \A p \in Procs :
        (thPc[p] = "store" /\ thPc'[p] # "store") =>
            themeMu.w = p /\ themeMu.r = {}
    /\ theme' # theme => themeMu.w # NoProc
    /\ \A t \in thPublished : themes'[t] = themes[t]

\* C14: with the watcher reloading concurrently with render passes, every
\* getTheme returns a reference to a complete Theme value, the one held before
\* or the one held after a reload; the reference is written only under the
\* exclusive lock and read only under the shared lock, and no field of a
\* published Theme is mutated in place.
C14_AtomicSwap == [](C14_Returned) /\ [][C14_Step]_vars

\* a render pass is reading the fields of a loaded theme while the watcher is
\* in the middle of decoding the next one
C14_Witness ==
    /\ thPc["main"] = "useMd"
    /\ thSeen.got # Nil
    /\ thSeen.got # DefaultRef
    /\ thPc["watcher"] = "decode2"

\* a step that stores the theme after a failed load stores the built-in one
C15_Step ==
    \A p \in Procs :
        (thPc[p] = "store" /\ thPc'[p] # "store" /\ thLocal[p].err) =>
            /\ theme' = DefaultRef
            /\ thPc'[p] = "unlock"

\* the theme held is a Theme value, the built-in one when the load that has
\* just stored it had failed
C15_Held ==
    /\ theme # Nil
    /\ theme \in 1..Len(themes)
    /\ \A p \in Procs :
        (thLocal[p].err /\ thPc[p] = "unlock") => theme = DefaultRef

PositionInRange(a) ==
    LET lines == getLines(a.fileContent) IN
    /\ 0 <= a.editY /\ a.editY < Len(lines)
    /\ 0 <= a.editX /\ a.editX <= Len(lines[a.editY + 1])

\* C16: a failed file open is never fatal: when the read of the selected file
\* fails with the cursor in range, the content stays or becomes the error
\* message, and every key event handled next on the right panel is processed
\* without an out-of-range line or rune index
C16_Step ==
    (lastOp' = "open-failed" /\ PositionInRange(App))
        => /\ fileContent' \in {fileContent, ReadError}
           /\ \A ev \in EditEvents :
                  ~handleKeyFile(draw(App', termW', termH'), ev, NoEnv,
                                 termW', termH').crashed

C16_FailedOpenNotFatal == [][C16_Step]_vars

\* C17: the position stays in range after a successful external format: when
\* gofmt or goimports succeeds from a state with the cursor in range, the
\* handler does not panic, the cursor is on a line of the new buffer and within
\* it, and no key event handled next indexes a line or rune out of range
C17_Step ==
    (lastOp' = "format-ok" /\ PositionInRange(App) /\ ~crashed)
        => /\ ~crashed'
           /\ PositionInRange(App')
           /\ \A ev \in EditEvents :
                  ~handleKeyFile(draw(App', termW', termH'), ev, NoEnv,
                                 termW', termH').crashed

C17_InRangeAfterFormat == [][C17_Step]_vars

\* C18: a formatter failure leaves the editor untouched: after a Ctrl+F or
\* Ctrl+G whose formatter fails, fileContent, the cursor, the scroll offsets
\* and the modified flag are what they were, and the formatter ran once
C18_Step ==
    lastOp' = "format-failed"
        => /\ fileContent' = fileContent
           /\ editX' = editX /\ editY' = editY
           /\ scrollX' = scrollX /\ scrollY' = scrollY
           /\ fileModified' = fileModified
           /\ fmtRuns' = 1

C18_FormatFailureUntouched == [][C18_Step]_vars

\* C33: command keys do not edit the buffer: a save key event leaves the buffer
\* as it was, whatever rune the event carries, and after a successful save the
\* content is what was written and the modified flag is false
C33_Step ==
    /\ lastOp' \in {"save-ok", "save-failed"} => fileContent' = fileContent
    /\ (lastOp' = "save-ok" /\ currentFile # <<>>)
           => /\ savedContent' = fileContent'
              /\ ~fileModified'

C33_CommandKeysDoNotEdit == [][C33_Step]_vars

\* C34: preview mode is read-only: a key event handled while the right panel
\* is active in preview mode leaves the buffer content and the cursor
\* (editX, editY) as they were
C34_Step ==
    (activePanel = "right" /\ mode = "preview")
        => /\ fileContent' = fileContent
           /\ editX' = editX
           /\ editY' = editY

C34_PreviewReadOnly == [][C34_Step]_vars

\* C35: a failed open cannot corrupt the previously open file: what a save has
\* written to the path of the open file holds no rune of the error message
\* openFile substitutes for the content; the files read and the keys typed
\* have no such rune
C35_SavedIsOfFile ==
    \A i \in 1..Len(savedContent) : savedContent[i] \notin {ReadError[j] : j \in 1..Len(ReadError)}

\* the (column, rune) cells of a row and which of them is inverted, the styles
\* left out
Unstyled(row) == [n \in 1..Len(row) |-> <<row[n].col, row[n].r, row[n].inv>>]

\* C36: highlighted and plain rendering draw the same text: the rows
\* drawTextEditor has drawn for a Go file hold the (column, rune) cells the
\* plain branch writes for the same buffer, scroll, cursor and width, with the
\* inverted cursor cell at the same column; only the styles differ
C36_SameCells ==
    (lastOp = "draw" /\ isGoFile(App))
        => \A y \in 1..EditorHeight(termH) :
               Unstyled(screen[y]) =
                   Unstyled(EditorRows(App, termW, termH, FALSE)[y])

\* C19: the modified flag tracks unsaved changes: when the buffer differs from
\* the content at the last successful open or save, fileModified is true; a
\* step that changes the content sets it unless it is a successful open, and
\* only a successful open or a successful save clears it
C19_Tracked == fileContent # savedContent => fileModified

C19_Step ==
    /\ fileContent' # fileContent => (fileModified' \/ lastOp' = "open-ok")
    /\ (fileModified /\ ~fileModified') => lastOp' \in {"open-ok", "save-ok"}

C19_ModifiedTracksChanges == [](C19_Tracked) /\ [][C19_Step]_vars

(***************************************************************************)
(* Claims about editing.                                                   *)
(***************************************************************************)
\* C20: Backspace at column 0 of a non-first line y merges it into line y-1:
\* the new line y-1 is the old line y-1 followed by the old line y, row y is
\* removed, every other line keeps its content and order, and the cursor ends
\* at (y-1, length of the old line y-1); Backspace at (0,0) changes nothing
C20_Step ==
    LET old == getLines(fileContent)
        new == getLines(fileContent')
        y   == editY
    IN
    (/\ lastOp' \in {"backspace", "backspace-merge"}
     /\ activePanel = "right" /\ mode = "edit"
     /\ editX = 0 /\ 0 <= y /\ y < Len(old))
        => IF y > 0
           THEN /\ ~crashed'
                /\ Len(new) = Len(old) - 1
                /\ new[y] = old[y] \o old[y + 1]
                /\ \A i \in 1..(y - 1) : new[i] = old[i]
                /\ \A i \in (y + 1)..Len(new) : new[i] = old[i + 1]
                /\ editY' = y - 1
                /\ editX' = Len(old[y])
           ELSE /\ ~crashed'
                /\ fileContent' = fileContent
                /\ fileModified' = fileModified
                /\ editX' = 0 /\ editY' = 0
                /\ scrollX' = scrollX /\ scrollY' = scrollY

C20_BackspaceMerges == [][C20_Step]_vars

\* a merge has joined a non-empty line with the one below it and kept the
\* line that followed
C20_Witness ==
    /\ lastOp = "backspace-merge"
    /\ ~crashed
    /\ Len(getLines(fileContent)) >= 2
    /\ editX > 0

\* C21: forward delete at the end of a non-last line y merges line y+1 upward:
\* the new line y is the old line y followed by the old line y+1, row y+1 is
\* removed, every other line keeps its content and order, and the cursor does
\* not move; forward delete at the end of the last line changes nothing
C21_Step ==
    LET old == getLines(fileContent)
        new == getLines(fileContent')
        y   == editY
    IN
    (/\ lastOp' \in {"delete", "delete-merge"}
     /\ activePanel = "right" /\ mode = "edit"
     /\ 0 <= y /\ y < Len(old) /\ editX = Len(old[y + 1]))
        => IF y < Len(old) - 1
           THEN /\ ~crashed'
                /\ Len(new) = Len(old) - 1
                /\ new[y + 1] = old[y + 1] \o old[y + 2]
                /\ \A i \in 1..y : new[i] = old[i]
                /\ \A i \in (y + 2)..Len(new) : new[i] = old[i + 1]
                /\ editY' = y
                /\ editX' = editX
           ELSE /\ ~crashed'
                /\ fileContent' = fileContent
                /\ fileModified' = fileModified
                /\ editX' = editX /\ editY' = editY

C21_DeleteMerges == [][C21_Step]_vars

\* a forward delete has joined a line with a non-empty line below it, with a
\* line above them
C21_Witness ==
    /\ lastOp = "delete-merge"
    /\ ~crashed
    /\ editY > 0
    /\ editX < Len(getLines(fileContent)[editY + 1])

\* C22: insert keeps every existing rune: a rune typed with the cursor at
\* (y, x), 0 <= x <= len(line y), makes line y the old runes before x, the
\* typed rune, then the old runes from x on; every other line is unchanged and
\* the cursor moves to (y, x+1)
C22_Step ==
    LET old == getLines(fileContent)
        new == getLines(fileContent')
        y   == editY
        x   == editX
    IN
    (/\ lastOp' = "rune"
     /\ activePanel = "right" /\ mode = "edit"
     /\ 0 <= y /\ y < Len(old) /\ 0 <= x /\ x <= Len(old[y + 1]))
        => /\ ~crashed'
           /\ Len(new) = Len(old)
           /\ \E r \in EditRunes \ {NL} :
                  new[y + 1] = Prefix(old[y + 1], x) \o <<r>> \o Suffix(old[y + 1], x)
           /\ \A i \in 1..Len(old) : i # y + 1 => new[i] = old[i]
           /\ editY' = y
           /\ editX' = x + 1

C22_InsertKeepsRunes == [][C22_Step]_vars

\* C32: every rune can be typed: in edit mode with the right panel active and
\* the cursor on a line, a key event that carries a printable rune puts that
\* rune into the buffer at the cursor, which makes the buffer one rune longer
\* and moves the cursor one column right; no printable rune is taken by a
\* shortcut instead
C32_Step ==
    LET old == getLines(fileContent)
        new == getLines(fileContent')
    IN
    (/\ lastOp' \in {"rune", "shortcut"}
     /\ activePanel = "right" /\ mode = "edit"
     /\ 0 <= editY /\ editY < Len(old)
     /\ 0 <= editX /\ editX <= Len(old[editY + 1]))
        => /\ ~crashed'
           /\ Len(fileContent') = Len(fileContent) + 1
           /\ Len(new[editY + 1]) = Len(old[editY + 1]) + 1
           /\ \E r \in (EditRunes \ {NL}) \cup {".", "?"} : new[editY + 1][editX + 1] = r
           /\ editY' = editY
           /\ editX' = editX + 1

C32_EveryRuneTyped == [][C32_Step]_vars

(***************************************************************************)
(* Claims about the buffer functions.                                      *)
(***************************************************************************)
\* C23 as stated: for any list of lines without a line feed, getLines applied
\* to the content setLines produced returns the same list
C23_RoundTripAnyList == lastOp = "setLines" => call.ret = call.arg

\* C23: for any list of at least one line, none holding a line feed, getLines
\* applied to the content setLines produced returns the same list; for the
\* empty list it returns the one empty line
C23_RoundTrip ==
    lastOp = "setLines"
        => call.ret = (IF call.arg = <<>> THEN << <<>> >> ELSE call.arg)

\* the round trip of two lines, an empty one before a non-empty one
C23_Witness ==
    /\ lastOp = "setLines"
    /\ Len(call.arg) = 2
    /\ call.arg[1] = <<>>
    /\ call.arg[2] # <<>>
    /\ fileModified

\* C24: clampCursor establishes the Position invariant from any buffer and any
\* integer cursor, and a second call changes nothing
C24_Established == lastOp = "clampCursor" => PositionInRange(App)

C24_Step ==
    lastOp' = "clampCursorAgain"
        => /\ editX' = editX /\ editY' = editY
           /\ fileContent' = fileContent

C24_ClampIdempotent == [](C24_Established) /\ [][C24_Step]_vars

\* a cursor that was out of range on both axes has been clamped twice
C24_Witness ==
    /\ lastOp = "clampCursorAgain"
    /\ Len(getLines(fileContent)) = 2
    /\ editY = 1
    /\ editX = Len(getLines(fileContent)[2])
    /\ editX > 0

(***************************************************************************)
(* Claims about parseColor.                                                *)
(***************************************************************************)
\* the 24-bit colour with red aa, green bb, blue cc of the string "#abc"
DoubledColor(s) ==
    [hi |-> 3,
     lo |-> 17 * DigitValue(s[2], 16) * 65536 + 17 * DigitValue(s[3], 16) * 256
            + 17 * DigitValue(s[4], 16)]

\* C25: parseColor expands 3-digit hex: for all hex digits a, b, c,
\* parseColor("#abc") is the 24-bit colour with red aa, green bb, blue cc and
\* parseColor("#aabbcc") is equal to it
C25_Step ==
    lastOp' = "parseColorLong"
        => /\ call.ret = DoubledColor(call.arg)
           /\ call'.ret = call.ret

C25_ShortHexExpands == [][C25_Step]_vars

\* "#aB0" has been parsed, then "#aaBB00"
C25_Witness ==
    /\ lastOp = "parseColorLong"
    /\ call.arg = <<"#", "a", "a", "B", "B", "0", "0">>
    /\ call.ret = [hi |-> 3, lo |-> 170 * 65536 + 187 * 256]

\* what the claim lists as recognized, read on the string without the
\* surrounding white space: empty or a sentinel, '#' and 3 or 6 hex digits,
\* decimal digits (a '+' before them allowed), a name of the table
Recognized(str) ==
    LET s      == TrimSpace(str)
        lower  == ToLower(s)
        digits == IF s # <<>> /\ s[1] = "+" THEN Tail(s) ELSE s
    IN
    \/ s = <<>>
    \/ lower \in Sentinels
    \/ /\ s[1] = "#"
       /\ Len(s) \in {4, 7}
       /\ \A i \in 2..Len(s) : DigitValue(s[i], 16) >= 0
    \/ /\ digits # <<>>
       /\ \A i \in 1..Len(digits) : DigitValue(digits[i], 10) >= 0
    \/ \E e \in ColorNames : e[1] = lower

\* C26: parseColor defaults everything unrecognized: a string that is not
\* empty or a sentinel, not '#' and 3 or 6 hex digits, not a non-negative
\* decimal integer and not a name of the table gives the terminal default
C26_UnrecognizedIsDefault ==
    (lastOp = "parseColor" /\ ~Recognized(call.arg)) => call.ret = ColorDefault

\* the main goroutine takes a step that draws, and one that dispatches the
\* event PollEvent of Run has returned
DrawStep     == loop'.pc # loop.pc /\ lastOp' = "draw"
DispatchStep == loop.pc = "poll" /\ loop'.pc # "poll"

\* the buffer, the cursor and the viewport
BufferState == <<fileContent, fileModified, editX, editY, scrollX, scrollY>>

\* each dispatch of Run finds on the screen the state it starts from
C27_DrawnBeforeDispatch ==
    DispatchStep => loop.seen = Shown(App, termW, termH)

\* a.draw() runs only as the first statement of the loop of Run, never while
\* handleKey is running
C27_NoDrawInHandler == DrawStep => loop.pc \notin HandlerPcs

\* a step of the watcher goroutine leaves buffer, cursor and viewport alone
C27_WatcherWritesTheme == (thVars' # thVars) => UNCHANGED BufferState

\* C27: the main loop strictly alternates redraw and dispatch: every dispatch
\* is preceded by a full redraw of the state the previous dispatch left, no
\* redraw happens while an event handler is running, and the theme watcher
\* goroutine writes none of buffer, cursor and viewport
C27_Step ==
    /\ C27_DrawnBeforeDispatch
    /\ C27_NoDrawInHandler
    /\ C27_WatcherWritesTheme

C27_LoopAlternates == [][C27_Step]_vars


\* ensureCursorVisible is applied with the cursor to the right of the
\* viewport: cursorDisp >= scrollDisp + width
ScrollsRight ==
    /\ lastOp' = "ensureCursorVisible"
    /\ 0 <= editY /\ editY < Len(getLines(fileContent))
    /\ runesDisplayWidth(CursorLine, editX)
           >= runesDisplayWidth(CursorLine, scrollX) + EditorWidth(termW)

\* the smallest rune index s <= editX from which the cells up to the cursor
\* fit in width - 1
MinimalScroll ==
    Least({s \in 0..editX :
               runesDisplayWidth(CursorLine, editX) - runesDisplayWidth(CursorLine, s)
                   <= EditorWidth(termW) - 1})

\* C28: minimal rightward scroll: when cursorDisp >= scrollDisp + width,
\* ensureCursorVisible sets scrollX to the smallest rune index s <= editX with
\* displayWidth(line, editX) - displayWidth(line, s) <= width - 1, on lines of
\* runes of width 0, 1 and 2; on a line of single-width runes that index is
\* editX - width + 1
C28_Step ==
    ScrollsRight
        => /\ scrollX' = MinimalScroll
           /\ (\A i \in 1..Len(CursorLine) : RuneWidth(CursorLine[i]) = 1)
                  => scrollX' = editX - EditorWidth(termW) + 1

C28_MinimalRightScroll == [][C28_Step]_vars

\* the buffer, the cursor and the terminal size are those of the last draw
SameAsShown ==
    /\ loop.seen # <<>>
    /\ <<fileContent, editX, editY, termW, termH>>
           = <<loop.seen[1], loop.seen[5], loop.seen[6], loop.seen[9], loop.seen[10]>>

\* C29: the viewport is fresh at every render: whenever a.draw() runs, in edit
\* or preview mode, after an operation that moved the cursor, changed the
\* buffer or resized the screen, ensureCursorVisible has run after that
\* operation and before the render reads scrollX and scrollY (in the handler
\* of the operation, or in the draw itself)
C29_Step == DrawStep => (ecvRan' \/ ecvRan \/ SameAsShown)

C29_ViewportFresh == [][C29_Step]_vars

\* the backslashes at the end of a line inside a string, counting the one
\* pending from the line before
TrailingSlashes(line, esc) ==
    LET k == SlashRun(line, Len(line) + 1)
    IN IF esc /\ k = Len(line) THEN k + 1 ELSE k

\* a line entered inside a string: the string ends at the first '"' that an
\* even number of backslashes precedes, and a line that does not end it
\* leaves the escape flag set exactly when it ends in an odd number of them
C30_Continued ==
    (hlPc = "row" /\ Kind(hlStart) = "string" /\ hlLine # <<>>)
        => LET t == TermEnd(hlLine, "string", hlStart.inEscape) IN
           IF t = 0
           THEN /\ hlRow = << [text |-> hlLine, style |-> StyleString] >>
                /\ hl.inString
                /\ hl.inEscape = (TrailingSlashes(hlLine, hlStart.inEscape) % 2 = 1)
           ELSE /\ hlRow[1] = [text |-> SubSeq(hlLine, 1, t), style |-> StyleString]
                /\ Len(hlRow) = 1 => ~hl.inString

\* a string opened on the line: its token runs from the opening '"' to the
\* first '"' after it that an even number of backslashes of the string
\* precedes, or to the end of the line, which then is left inside the string
C30_Opened ==
    hlPc = "row" =>
        \A n \in 1..Len(hlRow) :
            (/\ n > 1 \/ Kind(hlStart) = "normal"
             /\ hlRow[n].style = StyleString
             /\ hlRow[n].text[1] = "\"")
                => LET rest == Tail(hlRow[n].text)
                       t    == TermEnd(rest, "string", FALSE)
                   IN IF t = 0
                      THEN /\ n = Len(hlRow)
                           /\ hl.inString
                           /\ hl.inEscape = (TrailingSlashes(rest, FALSE) % 2 = 1)
                      ELSE /\ t = Len(rest)
                           /\ n = Len(hlRow) => ~hl.inString

\* C30: the string escape rule: inside a double-quoted string a '"' ends the
\* string if and only if the escape flag is clear, that is when an even number
\* of consecutive backslashes of the string precedes it; a backslash sets the
\* flag only when it is clear and every other rune clears it
C30_EscapeRule == C30_Continued /\ C30_Opened

\* the line "\"" (quote, backslash, quote, quote) scanned from the normal
\* state is one string token, closed by its last quote
C30_Witness ==
    /\ hlPc = "row"
    /\ Kind(hlStart) = "normal"
    /\ hlLine = <<"\"", "\\", "\"", "\"">>
    /\ hlRow = << [text |-> hlLine, style |-> StyleString] >>
    /\ hl = HlNormal

\* the fence lines drawPreview has passed when it reaches line i: those from
\* the first visible line on
SeenInFence(i) ==
    Cardinality({j \in scrollY..(i - 1) : IsFence(MdLines[j + 1])}) % 2 = 1

\* the runes that toggle inline state or make a link
MarkerRunes == {BT, "*", "_", "[", "]", "(", ")"}

\* runes with every marker left of index s replaced by a plain rune
Masked(runes, s) ==
    [k \in 1..Len(runes) |->
        IF k <= s /\ runes[k] \in MarkerRunes THEN "a" ELSE runes[k]]

\* C31: inline toggle state under horizontal scroll: with the preview scrolled
\* by scrollX runes, the cells of a row are those of the same stripped line
\* with every marker left of scrollX taken away: inline code and emphasis
\* start from Normal at index scrollX and markers before it have no effect
C31_ToggleFromScroll ==
    (mode = "preview" /\ lastOp = "draw") =>
        \A y \in VisibleRows :
            LET i    == scrollY + y
                trim == TrimRight(MdLines[i + 1], {"\r", NL})
                ls   == LineStyle(trim, SeenInFence(i))
            IN ~IsFence(MdLines[i + 1]) =>
                /\ screen[y + 1] =
                       Inline(Masked(ls.runes, scrollX), scrollX, 0, FALSE, FALSE, <<>>,
                              [base |-> ls.base, inCodeBlock |-> SeenInFence(i),
                               editorWidth |-> EditorWidth(termW)])
                /\ \A c \in RowCells(y) : c.idx >= scrollX

\* a line that opens inline code left of the scroll offset: the rune after
\* the backtick is shown in the base style
C31_Witness ==
    /\ mode = "preview"
    /\ lastOp = "draw"
    /\ scrollX = 1 /\ scrollY = 0
    /\ MdLines[1] = <<BT, "a", "a">>
    /\ screen[1] = <<Cell(0, "a", MdStyle("Foreground"), 1),
                     Cell(1, "a", MdStyle("Foreground"), 2)>>

\* the runes of a line the viewport shows: those from index sx on that fit in
\* w cells (every rune of the documents of SpecPreview takes one cell)
Window(runes, sx, w) ==
    SubSeq(runes, sx + 1, IF Len(runes) < sx + w THEN Len(runes) ELSE sx + w)

\* C37: fenced code is rendered verbatim: a visible line inside a fenced code
\* block, which drawPreview has come to with its fence flag set, shows every
\* rune of the line within the viewport, in order, in the code-block style
C37_FencedVerbatim ==
    (mode = "preview" /\ lastOp = "draw") =>
        \A y \in VisibleRows :
            LET i    == scrollY + y
                trim == TrimRight(MdLines[i + 1], {"\r", NL})
            IN (~IsFence(MdLines[i + 1]) /\ InFence(i) /\ SeenInFence(i)) =>
                /\ RowRunes(y) = Window(trim, scrollX, EditorWidth(termW))
                /\ \A c \in RowCells(y) : c.style = MdStyle("CodeBlock")

\* C38: one redraw uses one theme: the file list, the editor pane and the
\* status bar of one draw are styled from the same Theme value, the watcher
\* goroutine reloading the theme or not
C38_OneThemePerDraw ==
    \A m \in 1..Len(screen) : \A n \in 1..Len(screen) : screen[m] = screen[n]

\* C39: Enter then Backspace is the identity on text and cursor: in edit mode,
\* from any buffer and any cursor (y, x) of it, after Enter and then Backspace
\* the lines and the cursor are what they were
C39_EnterBackspaceIdentity ==
    lastOp = "backspace"
        => /\ ~crashed
           /\ getLines(fileContent) = getLines(call.arg[1])
           /\ editX = call.arg[2]
           /\ editY = call.arg[3]

====
